---- MODULE Spec2Model ----
(***************************************************************************)
(* The HTTP/1 body re-framing writer (H1BodyToChunkedTransfer) and the     *)
(* bidirectional ICAP respmod driver that polls it.                        *)
(*                                                                         *)
(* Bytes are their ASCII codes.  A poll of a future is one action: it runs *)
(* the whole poll body, nested polls and the tail call self.poll(cx)       *)
(* included, against the I/O outcomes of that poll, which are the action's *)
(* inputs:                                                                 *)
(*   wb     how many bytes the sink accepts in this poll before it stops   *)
(*          accepting (successive poll_write calls of one poll add up);    *)
(*   wend   what poll_write gives once wb is used up: Pending, an error,   *)
(*          or Ok(0);                                                      *)
(*   rs     [n, size]: how many reads the transport under the buffered     *)
(*          source completes in this poll and how many bytes each gives;   *)
(*   rend   what the underlying read gives after them: Pending, an error,  *)
(*          or end of file (only once every source byte was delivered);    *)
(*   fl     what poll_flush gives: done, Pending, or an error.             *)
(*                                                                         *)
(* Spec runs the transfer future on its own over every body type and      *)
(* over chunked bodies resumed after a preview.                            *)
(* SpecDriver runs transfer_and_recv and then transfer/do_transfer over    *)
(* it: one action per wake-up of a select loop and per await in between;   *)
(* SpecDriverFair adds that the interval timers of the idle check fire.    *)
(* SpecUdp runs DirectUdpRelayRemoteRecv: enable calls and receive calls,  *)
(* one action per call, the outcome of each socket poll an input.          *)
(* SpecConfig runs the set method of the TcpTProxy and the OpensslProxy     *)
(* server config over the keys of a YAML map, one action per key.          *)
(* SpecBind runs new_std_in_range_bind_lazy_connect, one action per bind   *)
(* attempt; SpecBindFair adds that the running call takes its next step.   *)
(***************************************************************************)
EXTENDS Integers, Sequences, FiniteSets, TLC

\* ---------------------------------------------------------------- bounds

MaxLen == 3
MaxSrc == 4
MaxBatch == 2
MaxReads == 1
MaxWrite == 1
BufferSize == 2
BodyLineMaxLen == 2
BigLen == 16
MaxIdleCount == 2
MaxIcapBody == 2
MaxPort == 2
MaxEnable == 3
MaxRecv == 1
MaxSet == 2
MaxLeft == 2
MaxRangeEnd == 3
BigRangeEnd == 12
RandomTries == 10

\* ----------------------------------------------------------------- bytes

Min(a, b) == IF a < b THEN a ELSE b

CRLF == <<13, 10>>

NO_TRAILER_END_BUFFER == <<13, 10, 48, 13, 10, 13, 10>>

Take(s, k) == SubSeq(s, 1, Min(k, Len(s)))

Drop(s, k) == SubSeq(s, Min(k, Len(s)) + 1, Len(s))

HexDigit(d) == IF d < 10 THEN 48 + d ELSE 87 + d

RECURSIVE ToHex(_)
ToHex(n) == IF n < 16 THEN <<HexDigit(n)>> ELSE ToHex(n \div 16) \o <<HexDigit(n % 16)>>

IsHex(b) == (b >= 48 /\ b <= 57) \/ (b >= 97 /\ b <= 102) \/ (b >= 65 /\ b <= 70)

HexVal(b) == IF b <= 57 THEN b - 48 ELSE IF b >= 97 THEN b - 87 ELSE b - 55

\* ------------------------------------------------ the source and the sink
\* A machine m is the state one poll works on: the transfer struct x with
\* the sub-futures it owns (copy, body, enc), the buffered source r, the
\* sink w, the I/O outcomes of this poll (wb, wend, rs, rend, fl) and the
\* poll's result res.

\* AsyncBufRead::poll_fill_buf of the buffered source: the buffered bytes
\* when there are some, otherwise one read of the transport underneath.
FillBuf(m) ==
    LET r == m.r
        p == [m EXCEPT !.r.polled = TRUE]
    IN  IF r.pos < r.filled
        THEN [m |-> p, kind |-> "data", data |-> SubSeq(r.data, r.pos + 1, r.filled)]
        ELSE IF m.rs.n > 0 /\ r.filled < Len(r.data)
        THEN LET f == Min(Len(r.data), r.filled + m.rs.size)
             IN  [m |-> [p EXCEPT !.r.filled = f, !.rs.n = m.rs.n - 1],
                  kind |-> "data", data |-> SubSeq(r.data, r.pos + 1, f)]
        ELSE IF m.rend = "err"
        THEN [m |-> p, kind |-> "err", data |-> <<>>]
        ELSE IF m.rend = "eof" /\ r.filled = Len(r.data)
        THEN [m |-> [p EXCEPT !.r.eof = TRUE], kind |-> "eof", data |-> <<>>]
        ELSE [m |-> p, kind |-> "pending", data |-> <<>>]

\* AsyncBufRead::consume
Consume(m, k) == [m EXCEPT !.r.pos = m.r.pos + k]

\* Successive poll_write calls on the sink with the bytes of buf, as far as
\* the sink accepts them in this poll: n is the number of bytes written.
SinkWrite(m, buf) ==
    [m |-> [m EXCEPT !.w.out = @ \o SubSeq(buf, 1, Min(Len(buf), m.wb)),
                     !.wb = @ - Min(Len(buf), m.wb)],
     n |-> Min(Len(buf), m.wb)]

\* poll_flush of the sink.
SinkFlush(m) ==
    IF m.fl = "ok" THEN [m EXCEPT !.w.flushed = Len(m.w.out)] ELSE m

\* ------------------------------------------------------- HttpBodyReader

\* One byte through the chunked framing parser.
ChunkStep(b, c) ==
    CASE b.st = "size" ->
            IF IsHex(c) /\ b.nline < BodyLineMaxLen
            THEN [b EXCEPT !.csize = b.csize * 16 + HexVal(c), !.nline = b.nline + 1]
            ELSE IF c = 13 /\ b.nline > 0 THEN [b EXCEPT !.st = "size_lf"]
            ELSE [b EXCEPT !.st = "bad"]
      [] b.st = "size_lf" ->
            IF c # 10 THEN [b EXCEPT !.st = "bad"]
            ELSE IF b.csize = 0 THEN [b EXCEPT !.st = "trailer"]
            ELSE [b EXCEPT !.st = "data", !.left = b.csize]
      [] b.st = "data" ->
            IF b.left > 1 THEN [b EXCEPT !.left = b.left - 1]
            ELSE [b EXCEPT !.left = 0, !.st = "data_cr"]
      [] b.st = "data_cr" ->
            IF c = 13 THEN [b EXCEPT !.st = "data_lf"] ELSE [b EXCEPT !.st = "bad"]
      [] b.st = "data_lf" ->
            IF c = 10 THEN [b EXCEPT !.st = "size", !.csize = 0, !.nline = 0]
            ELSE [b EXCEPT !.st = "bad"]
      [] b.st = "trailer" ->
            IF c = 13 THEN [b EXCEPT !.st = "end_lf"] ELSE [b EXCEPT !.st = "trailer_line"]
      [] b.st = "trailer_line" ->
            IF c = 10 THEN [b EXCEPT !.st = "trailer"] ELSE b
      [] b.st = "end_lf" ->
            IF c = 10 THEN [b EXCEPT !.st = "done"] ELSE [b EXCEPT !.st = "bad"]
      [] OTHER -> b

\* The bytes of data the chunked reader passes on in one read of at most
\* max bytes: it stops at the end of the body and before a byte that is
\* not chunked framing.
RECURSIVE ChunkScan(_, _, _, _)
ChunkScanNext(b, nb, data, i, max) ==
    IF nb.st = "bad" THEN [b |-> nb, n |-> i - 1]
    ELSE ChunkScan(nb, data, i + 1, max)

ChunkScan(b, data, i, max) ==
    IF i > Len(data) \/ i > max \/ b.st = "done"
    THEN [b |-> b, n |-> i - 1]
    ELSE ChunkScanNext(b, ChunkStep(b, data[i]), data, i, max)

\* The chunked reader's read, given the scan sc of the buffered bytes f.
ChunkedTake(f, sc) ==
    IF sc.n = 0
    THEN [m |-> [f.m EXCEPT !.body = sc.b], kind |-> "err", data |-> <<>>]
    ELSE [m |-> [Consume(f.m, sc.n) EXCEPT !.body = sc.b],
          kind |-> "data", data |-> SubSeq(f.data, 1, sc.n)]

\* The fixed-length reader's read, given the buffered bytes f: at most the
\* bytes left of the body, and the source is consumed by exactly that many.
FixedTake(f, k) ==
    [m |-> [Consume(f.m, k) EXCEPT !.body.left = @ - k],
     kind |-> "data", data |-> SubSeq(f.data, 1, k)]

\* The body reader's read, given what poll_fill_buf gave: the end of the
\* source inside the body is an error.
BodyReaderTake(f, max) ==
    IF f.kind = "pending" THEN [m |-> f.m, kind |-> "pending", data |-> <<>>]
    ELSE IF f.kind # "data" THEN [m |-> f.m, kind |-> "err", data |-> <<>>]
    ELSE IF f.m.body.kind = "fixed"
    THEN FixedTake(f, Min(Min(Len(f.data), f.m.body.left), max))
    ELSE ChunkedTake(f, ChunkScan(f.m.body, f.data, 1, max))

\* HttpBodyReader::poll_read into a buffer of max bytes.  kind is "data",
\* "end" (Ok(0): the body is over), "pending" or "err".
BodyReaderRead(m, max) ==
    IF (m.body.kind = "fixed" /\ m.body.left = 0)
       \/ (m.body.kind = "chunked" /\ m.body.st = "done")
    THEN [m |-> m, kind |-> "end", data |-> <<>>]
    ELSE IF m.body.kind = "chunked" /\ m.body.st = "bad"
    THEN [m |-> m, kind |-> "err", data |-> <<>>]
    ELSE BodyReaderTake(FillBuf(m), max)

NewFixedLengthReader(len) ==
    [kind |-> "fixed", left |-> len, st |-> "data", csize |-> 0, nline |-> 0]

NewChunkedReader ==
    [kind |-> "chunked", left |-> 0, st |-> "size", csize |-> 0, nline |-> 0]

\* HttpBodyReader::new_chunked_after_preview: the reader starts inside the
\* data of a chunk that has left_chunk_size bytes to go.
NewChunkedAfterPreviewReader(left_chunk_size) ==
    [kind |-> "chunked", left |-> left_chunk_size, st |-> "data",
     csize |-> left_chunk_size, nline |-> 0]

NoBodyReader ==
    [kind |-> "none", left |-> 0, st |-> "done", csize |-> 0, nline |-> 0]

\* ----------------------------------------------------- ROwnedStreamCopy

NewStreamCopy == [buf |-> <<>>, read_done |-> FALSE, copied |-> 0, active |-> FALSE]

\* What a poll gives when the sink has stopped accepting with bytes left to
\* write: Pending, a write error, or (Ok(0)) the WriteZero error.
WriteStopped(m) ==
    IF m.wend = "pending" THEN [m EXCEPT !.res = "Pending"]
    ELSE [m EXCEPT !.res = "WriteFailed"]

\* ROwnedStreamCopy::poll: fill the buffer from the body reader, drain it
\* to the sink, until the reader reports the end of the body and the buffer
\* is empty.  Ok carries copy.copied.
RECURSIVE StreamCopyPoll(_)
StreamCopyWritten(kind, wr) ==
    IF Len(wr.m.copy.buf) > wr.n
    THEN WriteStopped([wr.m EXCEPT !.copy.buf = Drop(@, wr.n),
                                   !.copy.copied = @ + wr.n,
                                   !.copy.active = @ \/ wr.n > 0])
    ELSE IF wr.m.copy.read_done
    THEN [wr.m EXCEPT !.copy.buf = <<>>, !.copy.copied = @ + wr.n,
                      !.copy.active = @ \/ wr.n > 0, !.res = "Ok"]
    ELSE IF kind = "pending"
    THEN [wr.m EXCEPT !.copy.buf = <<>>, !.copy.copied = @ + wr.n,
                      !.copy.active = @ \/ wr.n > 0, !.res = "Pending"]
    ELSE StreamCopyPoll([wr.m EXCEPT !.copy.buf = <<>>, !.copy.copied = @ + wr.n,
                                     !.copy.active = @ \/ wr.n > 0])

StreamCopyDrain(kind, m) == StreamCopyWritten(kind, SinkWrite(m, m.copy.buf))

StreamCopyFilled(rd) ==
    IF rd.kind = "err" THEN [rd.m EXCEPT !.res = "ReadFailed"]
    ELSE StreamCopyDrain(rd.kind,
            [rd.m EXCEPT !.copy.buf = @ \o rd.data,
                         !.copy.read_done = @ \/ rd.kind = "end",
                         !.copy.active = @ \/ rd.kind = "data"])

StreamCopyPoll(m) ==
    StreamCopyFilled(
        IF m.copy.read_done \/ Len(m.copy.buf) >= BufferSize
        THEN [m |-> m, kind |-> "skip", data |-> <<>>]
        ELSE BodyReaderRead(m, BufferSize - Len(m.copy.buf)))

\* ------------------------------------------------ StreamToChunkedTransfer

NewEncoder == [buf |-> <<>>, read_done |-> FALSE, total |-> 0, active |-> FALSE]

NoEncoder == [buf |-> <<>>, read_done |-> TRUE, total |-> 0, active |-> FALSE]

\* StreamToChunkedTransfer::poll (new_with_no_trailer): every batch the
\* source hands out becomes one chunk; at end of file the zero chunk and
\* the empty trailer follow.  Ok carries enc.total.
RECURSIVE EncodePoll(_)
EncodeFilled(f) ==
    CASE f.kind = "pending" -> [f.m EXCEPT !.res = "Pending"]
      [] f.kind = "err" -> [f.m EXCEPT !.res = "ReadFailed"]
      [] f.kind = "eof" ->
            EncodePoll([f.m EXCEPT !.enc.buf = <<48>> \o CRLF \o CRLF,
                                   !.enc.read_done = TRUE])
      [] OTHER ->
            EncodePoll([Consume(f.m, Len(f.data)) EXCEPT
                            !.enc.buf = ToHex(Len(f.data)) \o CRLF \o f.data \o CRLF,
                            !.enc.total = @ + Len(f.data),
                            !.enc.active = TRUE])

EncodeWritten(wr) ==
    IF Len(wr.m.enc.buf) > wr.n
    THEN WriteStopped([wr.m EXCEPT !.enc.buf = Drop(@, wr.n), !.enc.active = TRUE])
    ELSE IF wr.m.enc.read_done
    THEN [wr.m EXCEPT !.enc.buf = <<>>, !.enc.active = @ \/ wr.n > 0, !.res = "Ok"]
    ELSE EncodeFilled(FillBuf([wr.m EXCEPT !.enc.buf = <<>>, !.enc.active = @ \/ wr.n > 0]))

EncodePoll(m) == EncodeWritten(SinkWrite(m, m.enc.buf))

\* ------------------------------------------------ H1BodyToChunkedTransfer

\* The struct right after each constructor: x is the transfer itself, copy,
\* body and enc the sub-futures its state owns.
new_read_until_end ==
    [x |-> [body_type |-> "ReadUntilEnd", len |-> 0, state |-> "Encode",
            head |-> <<>>, offset |-> 0, total_write |-> 0, active |-> FALSE],
     copy |-> NewStreamCopy, body |-> NoBodyReader, enc |-> NewEncoder]

\* Faulty variant: the head in decimal digits.
new_fixed_length_decimal(len) ==
    [x |-> [body_type |-> "ContentLength", len |-> len,
            state |-> IF len = 0 THEN "SendNoTrailerEnd" ELSE "SendHead",
            head |-> IF len = 0 THEN <<>>
                     ELSE IF len < 10 THEN <<48 + len>> \o CRLF
                     ELSE <<48 + (len \div 10), 48 + (len % 10)>> \o CRLF,
            offset |-> IF len = 0 THEN 2 ELSE 0,
            total_write |-> 0, active |-> FALSE],
     copy |-> NewStreamCopy,
     body |-> IF len = 0 THEN NoBodyReader ELSE NewFixedLengthReader(len),
     enc |-> NoEncoder]

\* Faulty variant: the empty body starts at offset 0 of the end buffer.
new_fixed_length_offset0(len) ==
    [x |-> [body_type |-> "ContentLength", len |-> len,
            state |-> IF len = 0 THEN "SendNoTrailerEnd" ELSE "SendHead",
            head |-> IF len = 0 THEN <<>> ELSE ToHex(len) \o CRLF,
            offset |-> 0,
            total_write |-> 0, active |-> FALSE],
     copy |-> NewStreamCopy,
     body |-> IF len = 0 THEN NoBodyReader ELSE NewFixedLengthReader(len),
     enc |-> NoEncoder]

new_fixed_length(len) ==
    [x |-> [body_type |-> "ContentLength", len |-> len,
            state |-> IF len = 0 THEN "SendNoTrailerEnd" ELSE "SendHead",
            head |-> IF len = 0 THEN <<>> ELSE ToHex(len) \o CRLF,
            offset |-> IF len = 0 THEN 2 ELSE 0,
            total_write |-> 0, active |-> FALSE],
     copy |-> NewStreamCopy,
     body |-> IF len = 0 THEN NoBodyReader ELSE NewFixedLengthReader(len),
     enc |-> NoEncoder]

new_chunked ==
    [x |-> [body_type |-> "Chunked", len |-> 0, state |-> "Copy",
            head |-> <<>>, offset |-> 0, total_write |-> 0, active |-> FALSE],
     copy |-> NewStreamCopy, body |-> NewChunkedReader, enc |-> NoEncoder]

new(body_type, len) ==
    CASE body_type = "ContentLength" -> new_fixed_length(len)
      [] body_type = "ReadUntilEnd" -> new_read_until_end
      [] OTHER -> new_chunked

\* Faulty variant: the rest of the chunk is passed on without a head.
new_chunked_after_preview_no_head(left_chunk_size) ==
    [new_chunked EXCEPT !.body = IF left_chunk_size = 0 THEN @
                                 ELSE NewChunkedAfterPreviewReader(left_chunk_size)]

new_chunked_after_preview(left_chunk_size) ==
    IF left_chunk_size = 0
    THEN new_chunked
    ELSE [x |-> [body_type |-> "Chunked", len |-> 0, state |-> "SendHead",
                 head |-> ToHex(left_chunk_size) \o CRLF,
                 offset |-> 0, total_write |-> 0, active |-> FALSE],
          copy |-> NewStreamCopy,
          body |-> NewChunkedAfterPreviewReader(left_chunk_size),
          enc |-> NoEncoder]

\* The transfer as its owner builds it: through new for a body type, or
\* through new_chunked_after_preview for a body whose preview was sent.
Built(body_type, len) ==
    IF body_type = "ChunkedAfterPreview"
    THEN new_chunked_after_preview(len)
    ELSE new(body_type, len)

finished(x) == x.state \in {"FlushEnd", "End"}

is_idle(x) == ~x.active

reset_active(m) ==
    [m EXCEPT !.x.active = FALSE,
              !.copy.active = IF m.x.state = "Copy" THEN FALSE ELSE @,
              !.enc.active = IF m.x.state = "Encode" THEN FALSE ELSE @]

\* Faulty variant: a head or terminator in flight is not counted as cached.
no_cached_data_in_flight(x, c, e) ==
    CASE x.state = "Copy" -> c.buf = <<>>
      [] x.state = "Encode" -> e.buf = <<>>
      [] OTHER -> TRUE

no_cached_data(x, c, e) ==
    CASE x.state \in {"SendHead", "SendNoTrailerEnd"} -> FALSE
      [] x.state = "Copy" -> c.buf = <<>>
      [] x.state = "Encode" -> e.buf = <<>>
      [] OTHER -> TRUE

\* The loop `while offset < buf.len()` of SendHead and SendNoTrailerEnd left
\* with bytes still to write: ready! returns Pending, `?` returns the write
\* error, and on Ok(0) the loop adds 0 to the offset and runs again.
SendStopped(m) ==
    CASE m.wend = "pending" -> [m EXCEPT !.res = "Pending"]
      [] m.wend = "err" -> [m EXCEPT !.res = "WriteFailed"]
      [] OTHER -> [m EXCEPT !.res = "Spin"]

\* Faulty variant: the end buffer counted one byte short.
SendEndWritten_Early(m) ==
    IF m.x.offset < Len(NO_TRAILER_END_BUFFER) - 1
    THEN SendStopped(m)
    ELSE [m EXCEPT !.x.state = "FlushEnd", !.x.offset = 0,
                   !.x.active = TRUE, !.res = "Ok"]

\* poll, state SendNoTrailerEnd, after the writes of this poll
SendEndWritten(m) ==
    IF m.x.offset < Len(NO_TRAILER_END_BUFFER)
    THEN SendStopped(m)
    ELSE [m EXCEPT !.x.state = "FlushEnd", !.x.offset = 0,
                   !.x.active = TRUE, !.res = "Ok"]

SendEndWrite(wr) == SendEndWritten([wr.m EXCEPT !.x.offset = @ + wr.n])

\* poll, state SendNoTrailerEnd
PollSendNoTrailerEnd(m) ==
    SendEndWrite(SinkWrite(m, Drop(NO_TRAILER_END_BUFFER, m.x.offset)))

\* Faulty variant: a fixed-length body ends without its terminator.
CopyDone_SkipEnd(m) == [m EXCEPT !.x.state = "End", !.res = "Ok"]

\* Faulty variant: a passed-through chunked body gets a terminator too.
CopyDone_AlwaysEnd(m) ==
    PollSendNoTrailerEnd([m EXCEPT !.x.state = "SendNoTrailerEnd", !.x.offset = 0])

\* poll, state Copy, after the copy gave Ready(Ok(n)): the tail call
\* self.poll(cx) runs the branch of the state just set.
CopyDone(m) ==
    IF m.x.body_type = "ContentLength"
    THEN PollSendNoTrailerEnd([m EXCEPT !.x.state = "SendNoTrailerEnd", !.x.offset = 0])
    ELSE [m EXCEPT !.x.state = "End", !.res = "Ok"]

\* Faulty variant: a failed copy is taken as a finished one.
CopyPolled_ErrAsOk(c) ==
    CASE c.res = "Pending" -> [c EXCEPT !.x.active = @ \/ c.copy.active]
      [] OTHER ->
            CopyDone([c EXCEPT !.x.total_write = @ + c.copy.copied,
                               !.x.active = TRUE,
                               !.res = "None"])

\* Faulty variant: the count of the copy is assigned, not added.
CopyPolled_CountAssigned(c) ==
    CASE c.res = "Pending" -> [c EXCEPT !.x.active = @ \/ c.copy.active]
      [] c.res = "Ok" ->
            CopyDone([c EXCEPT !.x.total_write = c.copy.copied,
                               !.x.active = TRUE,
                               !.res = "None"])
      [] OTHER -> c

\* Faulty variant: a failed copy puts the transfer into state End.
CopyPolled_ErrEnds(c) ==
    CASE c.res = "Pending" -> [c EXCEPT !.x.active = @ \/ c.copy.active]
      [] c.res = "Ok" ->
            CopyDone([c EXCEPT !.x.total_write = @ + c.copy.copied,
                               !.x.active = TRUE,
                               !.res = "None"])
      [] OTHER -> [c EXCEPT !.x.state = "End"]

\* poll, state Copy, given the inner copy's poll result
CopyPolled(c) ==
    CASE c.res = "Pending" -> [c EXCEPT !.x.active = @ \/ c.copy.active]
      [] c.res = "Ok" ->
            CopyDone([c EXCEPT !.x.total_write = @ + c.copy.copied,
                               !.x.active = TRUE,
                               !.res = "None"])
      [] OTHER -> c

\* poll, state Copy
PollCopy(m) == CopyPolled(StreamCopyPoll(m))

\* poll, state SendHead, after the writes of this poll; the tail call
\* self.poll(cx) runs the Copy branch.
SendHeadWritten(m) ==
    IF m.x.offset < Len(m.x.head)
    THEN SendStopped(m)
    ELSE PollCopy([m EXCEPT !.x.total_write = @ + m.x.offset,
                            !.x.active = TRUE,
                            !.x.state = "Copy",
                            !.x.offset = 0,
                            !.copy = NewStreamCopy])

\* Faulty variant: the bytes a short write took are not counted, so the next
\* write sends them again.
SendHeadWrite_OffsetKept(wr) == SendHeadWritten(wr.m)

SendHeadWrite(wr) == SendHeadWritten([wr.m EXCEPT !.x.offset = @ + wr.n])

\* poll, state SendHead
PollSendHead(m) == SendHeadWrite(SinkWrite(m, Drop(m.x.head, m.x.offset)))

\* Faulty variant: the state is left at Encode when the encoder is done.
EncodePolled_StayEncode(e) ==
    CASE e.res = "Pending" -> [e EXCEPT !.x.active = @ \/ e.enc.active]
      [] e.res = "Ok" ->
            [e EXCEPT !.x.total_write = @ + e.enc.total, !.x.active = TRUE]
      [] OTHER -> e

\* poll, state Encode, given the encoder's poll result
EncodePolled(e) ==
    CASE e.res = "Pending" -> [e EXCEPT !.x.active = @ \/ e.enc.active]
      [] e.res = "Ok" ->
            [e EXCEPT !.x.total_write = @ + e.enc.total,
                      !.x.active = TRUE,
                      !.x.state = "End"]
      [] OTHER -> e

\* poll, state Encode
PollEncode(m) == EncodePolled(EncodePoll(m))

\* poll, state FlushEnd
PollFlushEnd(m) ==
    CASE m.fl = "pending" -> [m EXCEPT !.res = "Pending"]
      [] m.fl = "err" -> [m EXCEPT !.res = "WriteFailed"]
      [] OTHER -> [SinkFlush(m) EXCEPT !.res = "Ok"]

\* Future::poll of H1BodyToChunkedTransfer
Poll(m) ==
    CASE m.x.state = "SendHead" -> PollSendHead(m)
      [] m.x.state = "Copy" -> PollCopy(m)
      [] m.x.state = "SendNoTrailerEnd" -> PollSendNoTrailerEnd(m)
      [] m.x.state = "Encode" -> PollEncode(m)
      [] m.x.state = "FlushEnd" -> PollFlushEnd(m)
      [] OTHER -> [m EXCEPT !.res = "Ok"]

\* ------------------------------------------------------------- the inputs

Plain(n) == [i \in 1..n |-> 64 + i]

Chunk(p) == ToHex(Len(p)) \o CRLF \o p \o CRLF

RECURSIVE Chunks(_)
Chunks(ps) == IF ps = <<>> THEN <<>> ELSE Chunk(Head(ps)) \o Chunks(Tail(ps))

\* Chunked bodies: the payload of each chunk, the trailer fields, and the
\* bytes that follow the body on the connection.
ChunkPayloads == { <<>>, << <<120>> >>, << <<120, 121>> >>, << <<120>>, <<121>> >>,
                   << <<13, 10>> >> }

TrailerFields == { <<>>, <<84, 58, 118, 13, 10>> }

NextBytes == { <<>>, <<88>>, <<48, 13, 10>> }

WellFormedChunked ==
    { Chunks(ps) \o <<48>> \o CRLF \o t \o CRLF \o nx :
        ps \in ChunkPayloads, t \in TrailerFields, nx \in NextBytes }

\* A body cut short by the peer, and bytes that are no chunked framing.
BrokenChunked == { <<49, 13, 10, 120>>, <<49, 13, 10, 120, 121, 13, 10>>, <<122>> }

\* The bytes left of a chunk whose head went out with the preview: none of
\* them is a hex digit.
Rest(n) == [i \in 1..n |-> 103 + i]

\* What follows the rest of that chunk: no or one more chunk, the last
\* chunk, trailer fields, and bytes of the next message.
AfterRest ==
    { Chunks(ps) \o <<48>> \o CRLF \o t \o CRLF \o nx :
        ps \in { <<>>, << <<120>> >> }, t \in TrailerFields, nx \in { <<>>, <<88>> } }

\* <<"ChunkedAfterPreview", left_chunk_size, source bytes>>: the rest of the
\* chunk and what follows; a rest cut short; no rest (left_chunk_size = 0)
\* over a whole chunked body; one size of two hex digits.
PreviewInputs ==
    { <<"ChunkedAfterPreview", left, Rest(left) \o CRLF \o d>> :
        left \in 1..MaxLeft, d \in AfterRest }
    \cup { <<"ChunkedAfterPreview", MaxLeft, Rest(MaxLeft - 1)>>,
           <<"ChunkedAfterPreview", 1, Rest(2) \o CRLF \o <<48>> \o CRLF \o CRLF>>,
           <<"ChunkedAfterPreview", 0, <<49, 13, 10, 120, 13, 10, 48, 13, 10, 13, 10>>>>,
           <<"ChunkedAfterPreview", BigLen,
             Rest(BigLen) \o CRLF \o <<48>> \o CRLF \o CRLF>> }

\* <<body_type, len, source bytes>> of a transfer.  A ContentLength body
\* meets sources shorter and longer than its length; one length needs two
\* hex digits.
Inputs ==
    PreviewInputs \cup
    { <<"ContentLength", len, Plain(n)>> : len \in 0..MaxLen, n \in 0..MaxSrc }
    \cup { <<"ContentLength", BigLen, Plain(n)>> : n \in {BigLen - 1, BigLen + 1} }
    \cup { <<"ReadUntilEnd", 0, Plain(n)>> : n \in 0..MaxSrc }
    \cup { <<"Chunked", 0, d>> : d \in WellFormedChunked \cup BrokenChunked }

WriteAll == 16 * (MaxSrc + MaxLen + BigLen)

\* The I/O outcomes of one poll.  A poll that makes progress ends with the
\* sink or the source Pending (or the source at end of file).  A poll that
\* meets a failure meets it at its first I/O call of that kind: a failure
\* after progress leaves the state of the progress poll followed by such a
\* poll, so the failing polls carry no budget.
IO(wb, n, size, wend, rend, fl) ==
    [wb |-> wb, rs |-> [n |-> n, size |-> size], wend |-> wend, rend |-> rend, fl |-> fl]

ProgressIOs ==
    { IO(wb, rs[1], rs[2], "pending", rend, "ok") :
        wb \in (0..MaxWrite) \cup {WriteAll},
        rs \in {<<0, 1>>} \cup ((1..MaxReads) \X (1..MaxBatch)),
        rend \in {"pending", "eof"} }

FailureIOs ==
    { IO(0, 0, 1, "err", "pending", "ok"), IO(0, 0, 1, "zero", "pending", "ok"),
      IO(WriteAll, 0, 1, "pending", "err", "ok"),
      IO(0, 0, 1, "pending", "pending", "pending"),
      IO(0, 0, 1, "pending", "pending", "err") }

IOs == ProgressIOs \cup FailureIOs

\* ------------------------------------------------------------- the state

VARIABLES
    transfer,     \* H1BodyToChunkedTransfer: body_type, state, head, offset, total_write, active
    copy,         \* the ROwnedStreamCopy of state Copy
    body_reader,  \* the HttpBodyReader the copy reads from
    encode,       \* the StreamToChunkedTransfer of state Encode
    reader,       \* the buffered upstream source
    writer,       \* the sink: the bytes written and how many of them are flushed
    ret,          \* what the last poll of the transfer returned
    pc,           \* where the driver task stands
    idle_count,   \* the local idle_count of the running select loop
    tr_ret,       \* what transfer_and_recv returned
    end_state,    \* what BidirectionalRecvHttpResponse::transfer returned
    run_state,    \* RespmodAdaptationRunState: how often each mark was set
    icap_read_finished,
    body_content_length,
    clt,          \* clt_body_transfer, the StreamCopy from the ICAP reader to the client
    last_tick,    \* what the last idle tick handled by the driver saw
    remote_recv,  \* DirectUdpRelayRemoteRecv: inner_v4, inner_v6, bind_v4, bind_v6
    enabled,      \* the enable calls made so far, in order: family and bind address
    recv_ret,     \* what the last receive call returned and which sockets it polled
    server_type,  \* which server config is being parsed
    server,       \* the server config: its fields
    set_calls,    \* how many keys of the map were handed to set
    set_ret,      \* the last call of set: key, value, result and the warnings it logged
    bind_call     \* a call of new_std_in_range_bind_lazy_connect: arguments, locals, result

wvars == <<transfer, copy, body_reader, encode, reader, writer, ret>>

dvars == <<pc, idle_count, tr_ret, end_state, run_state, icap_read_finished,
           body_content_length, clt, last_tick>>

uvars == <<remote_recv, enabled, recv_ret>>

cvars == <<server_type, server, set_calls, set_ret>>

bvars == <<bind_call>>

\* The variables outside the ICAP driver and its body writer.
xvars == <<uvars, cvars, bvars>>

vars == <<transfer, copy, body_reader, encode, reader, writer, ret,
          pc, idle_count, tr_ret, end_state, run_state, icap_read_finished,
          body_content_length, clt, last_tick,
          remote_recv, enabled, recv_ret,
          server_type, server, set_calls, set_ret, bind_call>>

Machine(io) ==
    [x |-> transfer, copy |-> copy, body |-> body_reader, enc |-> encode,
     r |-> reader, w |-> writer,
     wb |-> io.wb, wend |-> io.wend, rs |-> io.rs, rend |-> io.rend, fl |-> io.fl,
     res |-> "None"]

NewReader(data) ==
    [data |-> data, pos |-> 0, filled |-> 0, polled |-> FALSE, eof |-> FALSE]

NewWriter == [out |-> <<>>, flushed |-> 0]

InitTransfer(body_type, len, data) ==
    /\ transfer = Built(body_type, len).x
    /\ copy = Built(body_type, len).copy
    /\ body_reader = Built(body_type, len).body
    /\ encode = Built(body_type, len).enc
    /\ reader = NewReader(data)
    /\ writer = NewWriter
    /\ ret = "None"

NoTick ==
    [phase |-> "none", n |-> 0, count |-> 0, force |-> FALSE,
     ups_idle |-> FALSE, ups_no_cache |-> FALSE,
     clt_idle |-> FALSE, clt_no_cache |-> FALSE,
     consulted |-> FALSE, quit |-> FALSE, ret |-> "None", icap |-> "none",
     polled |-> <<FALSE, FALSE>>, ready |-> FALSE]

\* Option<u64>: the declared Content-Length of the adapted response
None == [some |-> FALSE, len |-> 0]

Some(len) == [some |-> TRUE, len |-> len]

\* StreamCopy::new over an ICAP body of `left` bytes still to come.
NewClientCopy(left) ==
    [left |-> left, buf |-> 0, copied |-> 0, active |-> FALSE, read_done |-> FALSE,
     finished |-> FALSE, failed |-> "None", trailer |-> "None", reader |-> "none"]

\* --------------------------------- new_std_in_range_bind_lazy_connect
\* A port is a number; free is the set of ports of bind_ip that a bind
\* succeeds on while the call runs.

\* PortRange::count
PortRange_count(port_start, port_end) == port_end - port_start + 1

\* let tries = port.count().min(10)
tries(port_start, port_end) == Min(PortRange_count(port_start, port_end), RandomTries)

\* Faulty variant: the sequential scan leaves the last port out.
ScanPorts_exclusive(port_start, port_end) == port_start..(port_end - 1)

\* for port in port_start..=port_end
ScanPorts(port_start, port_end) == port_start..port_end

\* fastrand::u16(port_start..=port_end)
RandomPorts(port_start, port_end) == port_start..port_end

\* No call running.
NoBind ==
    [port_start |-> 0, port_end |-> 0, free |-> {}, phase |-> "none",
     i |-> 0, port |-> 0, attempts |-> 0, bound |-> 0, ret |-> "None", listen_port |-> 0]

\* The call entered with its arguments, before new_udp_socket.
BindEntered(port_start, port_end, free) ==
    [NoBind EXCEPT !.port_start = port_start, !.port_end = port_end,
                   !.free = free, !.phase = "socket"]

\* socket.bind(&bind_addr).is_ok()
bind_is_ok(b, port) == port \in b.free

\* After a bind that succeeded: local_addr()?, set_udp_misc_opts(..)?,
\* return Ok((socket, listen_addr)); r is "Ok" or the call that failed.
BindReturn(b, port, r) ==
    [b EXCEPT !.phase = "done", !.attempts = @ + 1, !.bound = port, !.ret = r,
              !.listen_port = IF r = "Ok" THEN port ELSE 0]

\* After a bind of the random loop that failed.
RandomFailed(b) ==
    [b EXCEPT !.attempts = @ + 1, !.i = @ + 1,
              !.phase = IF b.i + 1 < tries(b.port_start, b.port_end)
                        THEN "random" ELSE "scan",
              !.port = b.port_start]

\* After a bind of the sequential loop that failed: the next port, or
\* Err(AddrNotAvailable) after the last one.
ScanFailed(b) ==
    IF b.port + 1 \in ScanPorts(b.port_start, b.port_end)
    THEN [b EXCEPT !.attempts = @ + 1, !.port = @ + 1]
    ELSE [b EXCEPT !.attempts = @ + 1, !.phase = "done", !.ret = "AddrNotAvailable"]

InitBind == bind_call = NoBind

\* ------------------------------------------------- the server configs
\* A config is the function from its fields to their values; a field not
\* set yet holds "default".  A YAML value is opaque: "bad" is a value the
\* parser of the key's type refuses.

YamlValues == {"v1", "v2", "bad"}

\* g3_yaml::value::as_*, g3_yaml::humanize::as_*: Ok for a well-formed value
ValueOk(v) == v # "bad"

CONFIG_KEY_SERVER_TYPE == "type"

CONFIG_KEY_SERVER_NAME == "name"

TcpTProxyFields ==
    {"name", "escaper", "auditor", "shared_logger", "listen", "listen_in_worker",
     "ingress_net_filter", "tcp_sock_speed_limit", "task_idle_check_duration",
     "task_idle_max_count", "flush_task_log_on_created", "flush_task_log_on_connected",
     "task_log_flush_interval", "tcp_copy.buffer_size", "tcp_copy.yield_size",
     "tcp_misc_opts", "extra_metrics_tags"}

OpensslProxyFields ==
    {"name", "shared_logger", "listen", "listen_in_worker", "ingress_net_filter",
     "extra_metrics_tags", "client_hello_recv_timeout", "client_hello_max_size",
     "accept_timeout", "hosts", "tcp_sock_speed_limit", "task_idle_check_duration",
     "task_idle_max_count", "flush_task_log_on_created", "flush_task_log_on_connected",
     "task_log_flush_interval", "tcp_copy.buffer_size", "tcp_copy.yield_size",
     "tcp_misc_opts", "tls_ticketer", "tls_no_async_mode", "spawn_task_unconstrained",
     "alert_unrecognized_name"}

\* TcpTProxyServerConfig::new
NewTcpTProxy == [f \in TcpTProxyFields |-> "default"]

\* OpensslProxyServerConfig::new
NewOpensslProxy == [f \in OpensslProxyFields |-> "default"]

\* A call of set in progress: the config, the warnings logged, the result.
SetCall(c) == [config |-> c, warned |-> <<>>, res |-> "Ok"]

\* self.field = as_...(v)?; Ok(())
Assign(c, field, v) ==
    IF ValueOk(v)
    THEN [c EXCEPT !.config[field] = v]
    ELSE [c EXCEPT !.res = "InvalidValue"]

\* warn!("deprecated config key '{k}', please use ... instead")
Warn(c, k) == [c EXCEPT !.warned = Append(@, k)]

InvalidKey(c) == [c EXCEPT !.res = "InvalidKey"]

\* The arms of TcpTProxyServerConfig::set that assign one field.
TcpTProxyKeys ==
    [name |-> "name", escaper |-> "escaper", auditor |-> "auditor",
     shared_logger |-> "shared_logger", extra_metrics_tags |-> "extra_metrics_tags",
     listen |-> "listen", listen_in_worker |-> "listen_in_worker",
     ingress_network_filter |-> "ingress_net_filter",
     ingress_net_filter |-> "ingress_net_filter",
     tcp_sock_speed_limit |-> "tcp_sock_speed_limit",
     tcp_copy_buffer_size |-> "tcp_copy.buffer_size",
     tcp_copy_yield_size |-> "tcp_copy.yield_size",
     tcp_misc_opts |-> "tcp_misc_opts",
     task_idle_check_duration |-> "task_idle_check_duration",
     task_idle_max_count |-> "task_idle_max_count",
     flush_task_log_on_created |-> "flush_task_log_on_created",
     flush_task_log_on_connected |-> "flush_task_log_on_connected",
     task_log_flush_interval |-> "task_log_flush_interval"]

\* TcpTProxyServerConfig::set on a normalized key
RECURSIVE TcpTProxy_set(_, _, _)
TcpTProxy_set(c, k, v) ==
    CASE k = CONFIG_KEY_SERVER_TYPE -> c
      [] k \in {"tcp_conn_speed_limit", "tcp_conn_limit", "conn_limit"} ->
            TcpTProxy_set(Warn(c, k), "tcp_sock_speed_limit", v)
      [] k \in DOMAIN TcpTProxyKeys -> Assign(c, TcpTProxyKeys[k], v)
      [] OTHER -> InvalidKey(c)

\* The arms of OpensslProxyServerConfig::set that assign one field; the
\* arm of tls_no_async_mode is there in a build with openssl-async-job.
OpensslProxyKeys ==
    [name |-> "name", shared_logger |-> "shared_logger",
     extra_metrics_tags |-> "extra_metrics_tags",
     listen |-> "listen", listen_in_worker |-> "listen_in_worker",
     ingress_network_filter |-> "ingress_net_filter",
     ingress_net_filter |-> "ingress_net_filter",
     client_hello_recv_timeout |-> "client_hello_recv_timeout",
     client_hello_max_size |-> "client_hello_max_size",
     accept_timeout |-> "accept_timeout", handshake_timeout |-> "accept_timeout",
     negotiation_timeout |-> "accept_timeout",
     virtual_hosts |-> "hosts", hosts |-> "hosts",
     tcp_sock_speed_limit |-> "tcp_sock_speed_limit",
     tcp_conn_speed_limit |-> "tcp_sock_speed_limit",
     task_idle_check_duration |-> "task_idle_check_duration",
     task_idle_max_count |-> "task_idle_max_count",
     flush_task_log_on_created |-> "flush_task_log_on_created",
     flush_task_log_on_connected |-> "flush_task_log_on_connected",
     task_log_flush_interval |-> "task_log_flush_interval",
     tcp_copy_buffer_size |-> "tcp_copy.buffer_size",
     tcp_copy_yield_size |-> "tcp_copy.yield_size",
     tcp_misc_opts |-> "tcp_misc_opts",
     tls_ticketer |-> "tls_ticketer",
     tls_no_async_mode |-> "tls_no_async_mode",
     spawn_task_unconstrained |-> "spawn_task_unconstrained",
     task_unconstrained |-> "spawn_task_unconstrained",
     alert_unrecognized_name |-> "alert_unrecognized_name"]

\* OpensslProxyServerConfig::set on a normalized key
OpensslProxy_set(c, k, v, openssl_async_job) ==
    CASE k = CONFIG_KEY_SERVER_TYPE -> c
      [] k = "tls_no_async_mode" /\ ~openssl_async_job -> InvalidKey(c)
      [] k \in DOMAIN OpensslProxyKeys -> Assign(c, OpensslProxyKeys[k], v)
      [] OTHER -> InvalidKey(c)

NoSet == [key |-> "", value |-> "", res |-> "None", warned |-> <<>>]

InitConfig ==
    /\ server_type = "none"
    /\ server = <<>>
    /\ set_calls = 0
    /\ set_ret = NoSet

\* ------------------------------------------- DirectUdpRelayRemoteRecv
\* A socket address is its family and port.  An Option<T> socket is 0 for
\* None and, for Some, the number of the enable call that handed it over.

UNSPECIFIED(fam) == [fam |-> fam, port |-> 0]

NoAddr == [fam |-> "none", port |-> 0]

NoSocket == 0

\* DirectUdpRelayRemoteRecv::new
NewRemoteRecv ==
    [inner_v4 |-> NoSocket, inner_v6 |-> NoSocket,
     bind_v4 |-> UNSPECIFIED("v4"), bind_v6 |-> UNSPECIFIED("v6")]

\* Faulty variant: the address is recorded and the socket is dropped.
enable_v4_no_socket(d, inner, bind) == [d EXCEPT !.bind_v4 = bind]

enable_v4(d, inner, bind) == [d EXCEPT !.inner_v4 = inner, !.bind_v4 = bind]

\* Faulty variant: the address goes to the field of the other family.
enable_v6_bind_v4(d, inner, bind) == [d EXCEPT !.inner_v6 = inner, !.bind_v4 = bind]

enable_v6(d, inner, bind) == [d EXCEPT !.inner_v6 = inner, !.bind_v6 = bind]

\* No receive call made since the last enable call.
NoRecv ==
    [path |-> "none", kind |-> "None", n |-> 0, addr |-> NoAddr,
     sock |-> NoSocket, polled |-> <<>>]

\* What one poll of a socket can give: Pending, an error, or n bytes
\* (n packets on the batched path).
SockResults ==
    {[res |-> "Pending", n |-> 0], [res |-> "Err", n |-> 0]}
    \cup {[res |-> "Ok", n |-> n] : n \in 0..MaxRecv}

\* One socket polled with outcome o, an error mapped to
\* RecvFailed(bind_addr, e); polled lists the families polled in this call
\* and sock is the socket whose poll failed.
Polled1(path, inner, bind_addr, fam, o, polled) ==
    [path |-> path,
     kind |-> CASE o.res = "Pending" -> "Pending"
                [] o.res = "Ok" -> "Ok"
                [] OTHER -> "RecvFailed",
     n |-> IF o.res = "Ok" THEN o.n ELSE 0,
     addr |-> IF o.res = "Err" THEN bind_addr ELSE NoAddr,
     sock |-> IF o.res = "Err" THEN inner ELSE NoSocket,
     polled |-> Append(polled, fam)]

\* inner.poll_recv_from(cx, buf) with its map_err
poll_recv_from(inner, bind_addr, fam, o, polled) ==
    Polled1("packet", inner, bind_addr, fam, o, polled)

NoListenSocket(path) == [NoRecv EXCEPT !.path = path, !.kind = "NoListenSocket"]

\* DirectUdpRelayRemoteRecv::poll_recv_packet; o4 and o6 are what the v4
\* and the v6 socket give if they are polled.
poll_recv_packet(d, o4, o6) ==
    CASE d.inner_v4 # NoSocket /\ d.inner_v6 # NoSocket ->
            IF o4.res # "Pending"
            THEN poll_recv_from(d.inner_v4, d.bind_v4, "v4", o4, <<>>)
            ELSE poll_recv_from(d.inner_v6, d.bind_v6, "v6", o6, <<"v4">>)
      [] d.inner_v4 # NoSocket /\ d.inner_v6 = NoSocket ->
            poll_recv_from(d.inner_v4, d.bind_v4, "v4", o4, <<>>)
      [] d.inner_v4 = NoSocket /\ d.inner_v6 # NoSocket ->
            poll_recv_from(d.inner_v6, d.bind_v6, "v6", o6, <<>>)
      [] OTHER -> NoListenSocket("packet")

\* The helper Self::poll_recv_packets(inner, bind_addr, cx, packets)
Self_poll_recv_packets(inner, bind_addr, fam, o, polled) ==
    Polled1("packets", inner, bind_addr, fam, o, polled)

\* Faulty variant: with both sockets the v6 socket is polled first.
poll_recv_packets_v6_first(d, o4, o6) ==
    CASE d.inner_v4 # NoSocket /\ d.inner_v6 # NoSocket ->
            IF o6.res # "Pending"
            THEN Self_poll_recv_packets(d.inner_v6, d.bind_v6, "v6", o6, <<>>)
            ELSE Self_poll_recv_packets(d.inner_v4, d.bind_v4, "v4", o4, <<"v6">>)
      [] d.inner_v4 # NoSocket /\ d.inner_v6 = NoSocket ->
            Self_poll_recv_packets(d.inner_v4, d.bind_v4, "v4", o4, <<>>)
      [] d.inner_v4 = NoSocket /\ d.inner_v6 # NoSocket ->
            Self_poll_recv_packets(d.inner_v6, d.bind_v6, "v6", o6, <<>>)
      [] OTHER -> NoListenSocket("packets")

\* UdpRelayRemoteRecv::poll_recv_packets
poll_recv_packets(d, o4, o6) ==
    CASE d.inner_v4 # NoSocket /\ d.inner_v6 # NoSocket ->
            IF o4.res # "Pending"
            THEN Self_poll_recv_packets(d.inner_v4, d.bind_v4, "v4", o4, <<>>)
            ELSE Self_poll_recv_packets(d.inner_v6, d.bind_v6, "v6", o6, <<"v4">>)
      [] d.inner_v4 # NoSocket /\ d.inner_v6 = NoSocket ->
            Self_poll_recv_packets(d.inner_v4, d.bind_v4, "v4", o4, <<>>)
      [] d.inner_v4 = NoSocket /\ d.inner_v6 # NoSocket ->
            Self_poll_recv_packets(d.inner_v6, d.bind_v6, "v6", o6, <<>>)
      [] OTHER -> NoListenSocket("packets")

InitUdp ==
    /\ remote_recv = NewRemoteRecv
    /\ enabled = <<>>
    /\ recv_ret = NoRecv

\* The public field icap_read_finished: transfer only ever assigns it, so
\* the value the caller built the struct with is kept as AsBuilt, and an
\* assigned bool as "true" or "false".
AsBuilt == "as built"

Assigned(b) == IF b THEN "true" ELSE "false"

InitDriver(at, icap_body) ==
    /\ pc = at
    /\ idle_count = 0
    /\ tr_ret = "None"
    /\ end_state = "None"
    /\ run_state = [clt_send_start |-> 0, clt_send_header |-> 0, clt_send_all |-> 0]
    /\ icap_read_finished = AsBuilt
    /\ body_content_length = None
    /\ clt = NewClientCopy(icap_body)
    /\ last_tick = NoTick

\* ------------------------------------------- the transfer future on its own

\* The components that a specification does not run.
NoIcap == InitTransfer("ContentLength", 0, <<>>) /\ InitDriver("none", 0)

NoOthers == InitUdp /\ InitConfig /\ InitBind

Init ==
    \E in \in Inputs :
        /\ InitTransfer(in[1], in[2], in[3])
        /\ InitDriver("none", 0)
        /\ NoOthers

Failed == ret \in {"ReadFailed", "WriteFailed", "Spin"}

Polled(m) ==
    /\ transfer' = m.x
    /\ copy' = m.copy
    /\ body_reader' = m.body
    /\ encode' = m.enc
    /\ reader' = m.r
    /\ writer' = m.w
    /\ ret' = m.res

\* One poll of the transfer future by whoever owns it.
PollTransfer ==
    /\ pc = "none"
    /\ ~Failed
    /\ \E io \in IOs : Polled(Poll(Machine(io)))
    /\ UNCHANGED dvars
    /\ UNCHANGED xvars

\* reset_active called by whoever owns the transfer.
ResetActive ==
    /\ pc = "none"
    /\ ~Failed
    /\ Polled([reset_active(Machine(CHOOSE io \in IOs : TRUE)) EXCEPT !.res = ret])
    /\ UNCHANGED dvars
    /\ UNCHANGED xvars

Next == PollTransfer \/ ResetActive

Spec == Init /\ [][Next]_vars

\* ------------------------------------------------------ the idle checker

\* IdleCheck::check_quit: the policy of the surrounding task, here a
\* threshold on the idle count.  interval_timer().tick() gives the number
\* n >= 1 of intervals that went by; check_force_quit() gives a reason or
\* None, here the boolean force.
check_quit(count) == count >= MaxIdleCount

\* What a tick can give: one interval went by, or (the task was late) as
\* many as the quit threshold.
TickCounts == {1, MaxIdleCount}

\* ------------------------------------------ the ICAP-to-client body leg
\* clt_body_transfer: a StreamCopy from the decoded (or verbatim) ICAP body
\* to the client writer, kept by counts: left bytes of the body still to
\* come from the ICAP server, buf bytes read and not yet written, copied
\* bytes written.

clt_is_idle(c) == ~c.active

clt_no_cached_data(c) == c.buf = 0

clt_reset_active(c) == [c EXCEPT !.active = FALSE]

CltRead(c) == [c EXCEPT !.left = @ - 1, !.buf = 1, !.active = TRUE]

CltWritten(c) == [c EXCEPT !.buf = 0, !.copied = @ + 1, !.active = TRUE]

CltEnd(c) == [c EXCEPT !.read_done = TRUE, !.finished = TRUE]

CltStep(c) ==
    (IF c.buf = 1 THEN {CltWritten(c)} ELSE {})
    \cup (IF c.buf = 0 /\ c.left > 0 THEN {CltRead(c)} ELSE {})

CltProgress(c) == {c} \cup CltStep(c) \cup UNION { CltStep(d) : d \in CltStep(c) }

\* The results one poll of clt_body_transfer can give in state c: it stalls
\* after some reads and writes, it meets the end of the body with its
\* buffer written out, or a read or a write fails.
CltOutcomes(c) ==
    { [c |-> d, res |-> "Pending"] : d \in CltProgress(c) }
    \cup { [c |-> CltEnd(d), res |-> "Ok"] :
             d \in { e \in CltProgress(c) : e.buf = 0 /\ e.left = 0 } }
    \cup { [c |-> [c EXCEPT !.failed = e], res |-> e] : e \in {"ReadFailed", "WriteFailed"} }

\* The leg as an arm of a select that was, or was not, polled at a wake-up.
CltPolls(polled, c) ==
    IF polled THEN CltOutcomes(c) ELSE { [c |-> c, res |-> "NotPolled"] }

\* --------------------------------------------- the upstream-to-ICAP leg

Outcome(m) ==
    [x |-> m.x, copy |-> m.copy, body |-> m.body, enc |-> m.enc,
     r |-> m.r, w |-> m.w, res |-> m.res]

\* The sources of the driver's runs hold one byte at most: the sink takes a
\* byte at a time or everything, the transport gives a byte at a time.
DriverIOs == { io \in IOs : io.wb \in {0, 1, WriteAll} /\ io.rs.size = 1 /\ io.rs.n <= 1 }

\* The results one poll of the transfer future can give in this state.
UpsOutcomes == { Outcome(Poll(Machine(io))) : io \in DriverIOs }

UpsNotPolled == Outcome([Machine(CHOOSE io \in IOs : TRUE) EXCEPT !.res = ret])

UpsPolls(polled) == IF polled THEN UpsOutcomes ELSE {UpsNotPolled}

\* -------------------------------------------------------------- the driver

DriverInputs ==
    { <<"ContentLength", 0, <<>>>>,
      <<"ContentLength", 1, Plain(1)>>,
      <<"ReadUntilEnd", 0, Plain(1)>>,
      <<"Chunked", 0, <<48, 13, 10, 13, 10>>>> }

InitDriverSpec ==
    \E in \in DriverInputs :
        /\ InitTransfer(in[1], in[2], in[3])
        /\ InitDriver("transfer_and_recv", 0)
        /\ NoOthers

Observed(phase, m, c, count, n, force) ==
    [phase |-> phase, n |-> n, count |-> count, force |-> force,
     ups_idle |-> is_idle(m.x),
     ups_no_cache |-> no_cached_data(m.x, m.copy, m.enc),
     clt_idle |-> clt_is_idle(c), clt_no_cache |-> clt_no_cached_data(c),
     consulted |-> FALSE, quit |-> FALSE, ret |-> "None", icap |-> "none",
     polled |-> <<FALSE, FALSE>>, ready |-> FALSE]

\* What the wake-up of a tick was like: polled[1] and polled[2] tell whether
\* the upstream leg and the client leg were polled before the tick arm, and
\* ready whether a leg had something to do at this wake-up.
AtWakeUp(obs, polled, ready) == [obs EXCEPT !.polled = polled, !.ready = ready]

\* The poll of the upstream leg moved bytes.
UpsProgressed(m) == m.r.pos # reader.pos \/ m.w.out # writer.out

\* The poll of the client leg moved bytes.
CltProgressed(C) == C.c.left # clt.left \/ C.c.copied # clt.copied

check_force_quit(force) == IF force THEN "IdleForceQuit" ELSE "None"

\* Faulty variant: the force-quit reason is dropped on a tick that saw
\* progress.
TRTick_NoForceWhenActive(m, count, n, force) ==
    IF is_idle(m.x)
    THEN IF check_quit(count + n)
         THEN [m |-> m, idle_count |-> count + n, consulted |-> TRUE,
               ret |-> IF no_cached_data(m.x, m.copy, m.enc)
                       THEN "HttpUpstreamReadIdle" ELSE "IcapServerWriteIdle"]
         ELSE [m |-> m, idle_count |-> count + n, consulted |-> TRUE,
               ret |-> check_force_quit(force)]
    ELSE [m |-> reset_active(m), idle_count |-> 0, consulted |-> FALSE,
          ret |-> "None"]

\* transfer_and_recv, the arm of idle_interval.tick(): the transfer after
\* it, the local idle_count, what is returned ("None": the loop goes on),
\* and whether check_quit was consulted.
TRTick(m, count, n, force) ==
    IF is_idle(m.x)
    THEN IF check_quit(count + n)
         THEN [m |-> m, idle_count |-> count + n, consulted |-> TRUE,
               ret |-> IF no_cached_data(m.x, m.copy, m.enc)
                       THEN "HttpUpstreamReadIdle" ELSE "IcapServerWriteIdle"]
         ELSE [m |-> m, idle_count |-> count + n, consulted |-> TRUE,
               ret |-> check_force_quit(force)]
    ELSE [m |-> reset_active(m), idle_count |-> 0, consulted |-> FALSE,
          ret |-> check_force_quit(force)]

\* Faulty variant: a tick that saw progress keeps the idle count.
DTTick_CountKept(m, c, count, n, force) ==
    IF is_idle(m.x) /\ clt_is_idle(c)
    THEN IF check_quit(count + n)
         THEN [m |-> m, c |-> c, idle_count |-> count + n, consulted |-> TRUE,
               ret |-> IF no_cached_data(m.x, m.copy, m.enc)
                       THEN "HttpUpstreamReadIdle" ELSE "IcapServerWriteIdle"]
         ELSE [m |-> m, c |-> c, idle_count |-> count + n, consulted |-> TRUE,
               ret |-> check_force_quit(force)]
    ELSE [m |-> reset_active(m), c |-> clt_reset_active(c), idle_count |-> count,
          consulted |-> FALSE, ret |-> check_force_quit(force)]

\* do_transfer, the arm of idle_interval.tick()
DTTick(m, c, count, n, force) ==
    IF is_idle(m.x) /\ clt_is_idle(c)
    THEN IF check_quit(count + n)
         THEN [m |-> m, c |-> c, idle_count |-> count + n, consulted |-> TRUE,
               ret |-> IF is_idle(m.x)
                       THEN IF no_cached_data(m.x, m.copy, m.enc)
                            THEN "HttpUpstreamReadIdle" ELSE "IcapServerWriteIdle"
                       ELSE IF clt_no_cached_data(c)
                            THEN "IcapServerReadIdle" ELSE "HttpClientWriteIdle"]
         ELSE [m |-> m, c |-> c, idle_count |-> count + n, consulted |-> TRUE,
               ret |-> check_force_quit(force)]
    ELSE [m |-> reset_active(m), c |-> clt_reset_active(c), idle_count |-> 0,
          consulted |-> FALSE, ret |-> check_force_quit(force)]

\* The tick as it went.  How the wake-up was (polled, ready) is kept for the
\* ticks that return an idle verdict.
Ticked(obs, t) ==
    [obs EXCEPT !.consulted = t.consulted,
                !.quit = t.consulted /\ check_quit(t.idle_count),
                !.ret = t.ret,
                !.polled = IF t.consulted /\ check_quit(t.idle_count)
                           THEN @ ELSE <<FALSE, FALSE>>,
                !.ready = t.consulted /\ check_quit(t.idle_count) /\ @]

mark(rs, field) == [rs EXCEPT ![field] = @ + 1]

\* ---- BidirectionalRecvIcapResponse::transfer_and_recv

TRReturn(m) ==
    /\ Polled(m)
    /\ pc' = CASE m.res = "Ok" -> "recv_icap_response"
               [] m.res = "Spin" -> "spin"
               [] OTHER -> "done"
    /\ tr_ret' = CASE m.res = "ReadFailed" -> "HttpUpstreamReadFailed"
                   [] m.res = "WriteFailed" -> "IcapServerWriteFailed"
                   [] OTHER -> tr_ret

\* A wake-up at which the body_transfer arm is ready.
TRBodyTransfer ==
    /\ pc = "transfer_and_recv"
    /\ \E m \in UpsOutcomes : m.res # "Pending" /\ TRReturn(m)
    /\ UNCHANGED <<idle_count, end_state, run_state, icap_read_finished,
                   body_content_length, clt>>
    /\ last_tick' = NoTick
    /\ UNCHANGED xvars

\* Faulty variant: the two errors of the fill_wait_data arm change places.
fill_wait_data_arm_swapped(r, tr) ==
    CASE r = "closed" -> "IcapServerReadFailed"
      [] r = "err" -> "IcapServerConnectionClosed"
      [] OTHER -> tr

\* The fill_wait_data arm: Ok(true) is "data", Ok(false) "closed", Err "err".
fill_wait_data_arm(r, tr) ==
    CASE r = "closed" -> "IcapServerConnectionClosed"
      [] r = "err" -> "IcapServerReadFailed"
      [] OTHER -> tr

\* A wake-up at which body_transfer is Pending and fill_wait_data is ready.
\* last_tick.icap keeps what fill_wait_data gave.
TRIcapReader ==
    /\ pc = "transfer_and_recv"
    /\ \E m \in UpsOutcomes : m.res = "Pending" /\ Polled(m)
    /\ \E r \in {"data", "closed", "err"} :
        /\ pc' = IF r = "data" THEN "recv_icap_response" ELSE "done"
        /\ tr_ret' = fill_wait_data_arm(r, tr_ret)
        /\ last_tick' = [NoTick EXCEPT !.icap = r]
    /\ UNCHANGED <<idle_count, end_state, run_state, icap_read_finished,
                   body_content_length, clt>>
    /\ UNCHANGED xvars

TRTicked(obs, t) ==
    /\ Polled(t.m)
    /\ idle_count' = t.idle_count
    /\ tr_ret' = t.ret
    /\ pc' = IF t.ret = "None" THEN pc ELSE "done"
    /\ last_tick' = Ticked(obs, t)

\* A wake-up at which both are Pending and the idle tick is due.
TRIdleTick ==
    /\ pc = "transfer_and_recv"
    /\ \E m \in UpsOutcomes : \E n \in TickCounts : \E force \in BOOLEAN :
        /\ m.res = "Pending"
        /\ TRTicked(AtWakeUp(Observed("transfer_and_recv", m, clt, idle_count, n, force),
                             <<TRUE, FALSE>>, UpsProgressed(m)),
                    TRTick(m, idle_count, n, force))
    /\ UNCHANGED <<end_state, run_state, icap_read_finished, body_content_length, clt>>
    /\ UNCHANGED xvars

\* A wake-up at which no arm is ready.
TRPending ==
    /\ pc = "transfer_and_recv"
    /\ \E m \in UpsOutcomes : m.res = "Pending" /\ Polled(m)
    /\ UNCHANGED <<pc, idle_count, tr_ret, end_state, run_state, icap_read_finished,
                   body_content_length, clt>>
    /\ last_tick' = NoTick
    /\ UNCHANGED xvars

\* recv_icap_response: RespmodResponse::parse gives the response or fails.
\* With the response the caller goes on to
\* BidirectionalRecvHttpResponse::transfer.
RecvIcapResponse ==
    /\ pc = "recv_icap_response"
    /\ \E ok \in BOOLEAN :
        /\ tr_ret' = IF ok THEN "Ok" ELSE "IcapResponseParseFailed"
        /\ pc' = IF ok THEN "transfer" ELSE "done"
    /\ UNCHANGED wvars
    /\ UNCHANGED <<idle_count, end_state, run_state, icap_read_finished,
                   body_content_length, clt>>
    /\ last_tick' = NoTick
    /\ UNCHANGED xvars

\* ---- BidirectionalRecvHttpResponse::transfer

\* Faulty variant: mark_clt_send_start comes before the parse.
ParseHeader_MarkFirst ==
    /\ pc = "transfer"
    /\ \E ok \in BOOLEAN : \E r \in {None, Some(0), Some(1)} :
        IF ~ok
        THEN /\ end_state' = "HttpResponseParseFailed"
             /\ pc' = "done"
             /\ run_state' = mark(run_state, "clt_send_start")
             /\ UNCHANGED body_content_length
        ELSE /\ body_content_length' = r
             /\ run_state' = mark(run_state, "clt_send_start")
             /\ pc' = "send_response_header"
             /\ UNCHANGED end_state
    /\ UNCHANGED wvars
    /\ UNCHANGED <<idle_count, tr_ret, icap_read_finished, clt>>
    /\ last_tick' = NoTick
    /\ UNCHANGED xvars

\* Faulty variant: mark_clt_send_start is left out.
ParseHeader_NoStart ==
    /\ pc = "transfer"
    /\ \E ok \in BOOLEAN : \E r \in {None, Some(0), Some(1)} :
        IF ~ok
        THEN /\ end_state' = "HttpResponseParseFailed"
             /\ pc' = "done"
             /\ UNCHANGED <<body_content_length, run_state>>
        ELSE /\ body_content_length' = r
             /\ pc' = "send_response_header"
             /\ UNCHANGED <<end_state, run_state>>
    /\ UNCHANGED wvars
    /\ UNCHANGED <<idle_count, tr_ret, icap_read_finished, clt>>
    /\ last_tick' = NoTick
    /\ UNCHANGED xvars

\* HttpAdaptedResponse::parse, adapt_with_body, mark_clt_send_start
ParseHeader ==
    /\ pc = "transfer"
    /\ \E ok \in BOOLEAN : \E r \in {None, Some(0), Some(1)} :
        IF ~ok
        THEN /\ end_state' = "HttpResponseParseFailed"
             /\ pc' = "done"
             /\ UNCHANGED <<body_content_length, run_state>>
        ELSE /\ body_content_length' = r
             /\ run_state' = mark(run_state, "clt_send_start")
             /\ pc' = "send_response_header"
             /\ UNCHANGED end_state
    /\ UNCHANGED wvars
    /\ UNCHANGED <<idle_count, tr_ret, icap_read_finished, clt>>
    /\ last_tick' = NoTick
    /\ UNCHANGED xvars

\* Faulty variant: a declared length of 0 is taken like any other.
zero_length_declared_never(bcl) == FALSE

\* match body_content_length { Some(0) => Err(InvalidHttpBodyFromIcapServer), ..
zero_length_declared(bcl) == bcl = Some(0)

\* Faulty variant: the ICAP body is decoded whatever the header declares.
clt_body_reader_decoded(bcl) == "HttpBodyDecodeReader"

\* The reader the arms Some(expected) and None put over the ICAP reader.
clt_body_reader(bcl) ==
    IF bcl.some THEN "HttpBodyDecodeReader" ELSE "HttpBodyReader"

\* HttpBodyDecodeReader::new_chunked over the bytes data from byte i on: the
\* bytes of chunk data are passed on, the framing is dropped, and the read
\* ends behind the line of the last chunk.
RECURSIVE DecodeScan(_, _, _, _)
DecodeScanNext(b, nb, data, i, acc) ==
    IF nb.st = "bad" THEN [ok |-> FALSE, bytes |-> acc, n |-> i - 1]
    ELSE DecodeScan(nb, data, i + 1,
                    IF b.st = "data" THEN Append(acc, data[i]) ELSE acc)

DecodeScan(b, data, i, acc) ==
    IF b.st = "trailer" THEN [ok |-> TRUE, bytes |-> acc, n |-> i - 1]
    ELSE IF i > Len(data) THEN [ok |-> FALSE, bytes |-> acc, n |-> i - 1]
    ELSE DecodeScanNext(b, ChunkStep(b, data[i]), data, i, acc)

\* What the client leg copies to the client of the ICAP body data, read
\* through the reader of that name to its end.
ClientReceives(reader_name, data) ==
    IF reader_name = "HttpBodyDecodeReader"
    THEN DecodeScan(NewChunkedReader, data, 1, <<>>).bytes
    ELSE SubSeq(data, 1, ChunkScan(NewChunkedReader, data, 1, Len(data)).n)

\* send_response_header, mark_clt_send_header, and the match on
\* body_content_length up to the call of do_transfer.
SendResponseHeader ==
    /\ pc = "send_response_header"
    /\ \E ok \in BOOLEAN : \E icap_body \in 0..MaxIcapBody :
        IF ~ok
        THEN /\ end_state' = "HttpClientWriteFailed"
             /\ pc' = "done"
             /\ UNCHANGED <<run_state, clt, idle_count>>
        ELSE IF zero_length_declared(body_content_length)
        THEN /\ end_state' = "InvalidHttpBodyFromIcapServer"
             /\ pc' = "done"
             /\ run_state' = mark(run_state, "clt_send_header")
             /\ UNCHANGED <<clt, idle_count>>
        ELSE /\ run_state' = mark(run_state, "clt_send_header")
             /\ clt' = [NewClientCopy(icap_body) EXCEPT
                          !.reader = clt_body_reader(body_content_length)]
             /\ idle_count' = 0
             /\ pc' = "do_transfer"
             /\ UNCHANGED end_state
    /\ UNCHANGED wvars
    /\ UNCHANGED <<tr_ret, icap_read_finished, body_content_length>>
    /\ last_tick' = NoTick
    /\ UNCHANGED xvars

\* Faulty variant: with no declared length the flag is not assigned.
AfterDoTransfer_FlagKept(c) ==
    /\ clt' = c
    /\ run_state' = mark(run_state, "clt_send_all")
    /\ IF body_content_length = None
       THEN /\ end_state' = "AdaptedTransferred"
            /\ pc' = "done"
            /\ UNCHANGED icap_read_finished
       ELSE /\ pc' = "trailer"
            /\ UNCHANGED <<icap_read_finished, end_state>>

\* do_transfer has returned Ok: mark_clt_send_all and, with no declared
\* length, the end of transfer; with a declared length the trailer read
\* comes next.
AfterDoTransfer(c) ==
    /\ clt' = c
    /\ run_state' = mark(run_state, "clt_send_all")
    /\ IF body_content_length = None
       THEN /\ icap_read_finished' = Assigned(c.finished)
            /\ end_state' = "AdaptedTransferred"
            /\ pc' = "done"
       ELSE /\ pc' = "trailer"
            /\ UNCHANGED <<icap_read_finished, end_state>>

\* Faulty variant: a failed client leg sets icap_read_finished.
CltFailed_FlagSet(C) ==
    /\ clt' = C.c
    /\ end_state' = IF C.res = "ReadFailed" THEN "IcapServerReadFailed"
                    ELSE "HttpClientWriteFailed"
    /\ pc' = "done"
    /\ icap_read_finished' = Assigned(TRUE)
    /\ UNCHANGED run_state

\* Faulty variant: the two errors of the client leg change places.
CltFailed_Swapped(C) ==
    /\ clt' = C.c
    /\ end_state' = IF C.res = "ReadFailed" THEN "HttpClientWriteFailed"
                    ELSE "IcapServerReadFailed"
    /\ pc' = "done"
    /\ UNCHANGED <<run_state, icap_read_finished>>

\* do_transfer has returned the error of the client leg.
CltFailed(C) ==
    /\ clt' = C.c
    /\ end_state' = IF C.res = "ReadFailed" THEN "IcapServerReadFailed"
                    ELSE "HttpClientWriteFailed"
    /\ pc' = "done"
    /\ UNCHANGED <<run_state, icap_read_finished>>

\* A wake-up of do_transfer at which the ups_body_transfer arm is ready and
\* is reached: the select starts at a random arm, so the client leg was
\* polled before it (and was Pending) or was not polled.
DTUps ==
    /\ pc = "do_transfer"
    /\ \E m \in UpsOutcomes : \E pclt \in BOOLEAN : \E C \in CltPolls(pclt, clt) :
        /\ m.res # "Pending"
        /\ C.res \in {"Pending", "NotPolled"}
        /\ Polled(m)
        /\ clt' = C.c
        /\ pc' = CASE m.res = "Ok" -> "await_clt"
                   [] m.res = "Spin" -> "spin"
                   [] OTHER -> "done"
        /\ end_state' = CASE m.res = "ReadFailed" -> "HttpUpstreamReadFailed"
                          [] m.res = "WriteFailed" -> "IcapServerWriteFailed"
                          [] OTHER -> end_state
    /\ UNCHANGED <<idle_count, tr_ret, run_state, icap_read_finished,
                   body_content_length>>
    /\ last_tick' = NoTick
    /\ UNCHANGED xvars

\* A wake-up of do_transfer at which the clt_body_transfer arm is ready and
\* is reached.
DTClt ==
    /\ pc = "do_transfer"
    /\ \E pups \in BOOLEAN : \E m \in UpsPolls(pups) : \E C \in CltOutcomes(clt) :
        /\ pups => m.res = "Pending"
        /\ C.res # "Pending"
        /\ Polled(m)
        /\ IF C.res = "Ok" THEN AfterDoTransfer(C.c) ELSE CltFailed(C)
    /\ UNCHANGED <<idle_count, tr_ret, body_content_length>>
    /\ last_tick' = NoTick
    /\ UNCHANGED xvars

DTTicked(obs, t) ==
    /\ Polled(t.m)
    /\ clt' = t.c
    /\ idle_count' = t.idle_count
    /\ end_state' = t.ret
    /\ pc' = IF t.ret = "None" THEN pc ELSE "done"
    /\ last_tick' = Ticked(obs, t)

\* A wake-up of do_transfer at which the idle tick is due and is reached:
\* no leg, the client leg, or both legs were polled before it and were
\* Pending.  The select is not biased: it starts at a random arm and goes
\* round, so a leg that was not polled may have been ready (unpolled_ready).
DTIdleTick ==
    /\ pc = "do_transfer"
    /\ \E p \in {<<FALSE, FALSE>>, <<FALSE, TRUE>>, <<TRUE, TRUE>>} :
       \E m \in UpsPolls(p[1]) : \E C \in CltPolls(p[2], clt) :
       \E n \in TickCounts : \E force \in BOOLEAN : \E unpolled_ready \in BOOLEAN :
        /\ p[1] => m.res = "Pending"
        /\ C.res \in {"Pending", "NotPolled"}
        /\ p = <<TRUE, TRUE>> => ~unpolled_ready
        /\ DTTicked(AtWakeUp(Observed("do_transfer", m, C.c, idle_count, n, force), p,
                             \/ unpolled_ready
                             \/ p[1] /\ UpsProgressed(m)
                             \/ p[2] /\ CltProgressed(C)),
                    DTTick(m, C.c, idle_count, n, force))
    /\ UNCHANGED <<tr_ret, run_state, icap_read_finished, body_content_length>>
    /\ UNCHANGED xvars

\* A wake-up of do_transfer at which no arm is ready.
DTPending ==
    /\ pc = "do_transfer"
    /\ \E m \in UpsOutcomes : \E C \in CltOutcomes(clt) :
        /\ m.res = "Pending"
        /\ C.res = "Pending"
        /\ Polled(m)
        /\ clt' = C.c
    /\ UNCHANGED <<pc, idle_count, tr_ret, end_state, run_state, icap_read_finished,
                   body_content_length>>
    /\ last_tick' = NoTick
    /\ UNCHANGED xvars

\* clt_body_transfer.await after the upstream leg gave Ok.
AwaitClt ==
    /\ pc = "await_clt"
    /\ \E C \in CltOutcomes(clt) :
        CASE C.res = "Pending" ->
                /\ clt' = C.c
                /\ UNCHANGED <<pc, end_state, run_state, icap_read_finished>>
          [] C.res = "Ok" -> AfterDoTransfer(C.c)
          [] OTHER -> CltFailed(C)
    /\ UNCHANGED wvars
    /\ UNCHANGED <<idle_count, tr_ret, body_content_length>>
    /\ last_tick' = NoTick
    /\ UNCHANGED xvars

\* Faulty variant: only a body shorter than declared is refused.
length_checked_at_least(copied, expected) ==
    IF copied < expected THEN "InvalidHttpBodyFromIcapServer" ELSE "AdaptedTransferred"

\* if copied != expected { return Err(InvalidHttpBodyFromIcapServer) } Ok(..)
length_checked(copied, expected) ==
    IF copied # expected THEN "InvalidHttpBodyFromIcapServer" ELSE "AdaptedTransferred"

\* Faulty variant: the flag is assigned the outcome of the trailer read.
trailer_read_assigned(ok, read_finished) == Assigned(ok)

\* if clt_body_reader.trailer(128).await.is_ok() { icap_read_finished = true }
trailer_read(ok, read_finished) == IF ok THEN Assigned(TRUE) ELSE read_finished

\* clt_body_reader.trailer(128) and the comparison of copied with expected.
\* clt.trailer keeps the outcome of the trailer read.
Trailer ==
    /\ pc = "trailer"
    /\ \E ok \in BOOLEAN :
        /\ icap_read_finished' = trailer_read(ok, icap_read_finished)
        /\ clt' = [clt EXCEPT !.trailer = IF ok THEN "Ok" ELSE "Err"]
    /\ end_state' = length_checked(clt.copied, body_content_length.len)
    /\ pc' = "done"
    /\ UNCHANGED wvars
    /\ UNCHANGED <<idle_count, tr_ret, run_state, body_content_length>>
    /\ last_tick' = NoTick
    /\ UNCHANGED xvars

NextDriver ==
    \/ TRBodyTransfer
    \/ TRIcapReader
    \/ TRIdleTick
    \/ TRPending
    \/ RecvIcapResponse
    \/ ParseHeader
    \/ SendResponseHeader
    \/ DTUps
    \/ DTClt
    \/ DTIdleTick
    \/ DTPending
    \/ AwaitClt
    \/ Trailer

SpecDriver == InitDriverSpec /\ [][NextDriver]_vars

\* The interval timers of the idle checker keep firing: a tick arm that stays
\* enabled is taken.  The legs are the environment's and may stall for ever.
\* The runs are those over the empty fixed-length body.
InitDriverFair ==
    /\ InitTransfer("ContentLength", 0, <<>>)
    /\ InitDriver("transfer_and_recv", 0)
    /\ NoOthers

SpecDriverFair ==
    InitDriverFair /\ [][NextDriver]_vars /\ WF_vars(TRIdleTick) /\ WF_vars(DTIdleTick)

\* --------------------------------------------- the UDP relay receive half

\* The address a caller binds a socket of this family to.
Binds(fam) == { [fam |-> fam, port |-> p] : p \in 1..MaxPort }

EnableCalled(d, fam, bind) ==
    /\ remote_recv' = d
    /\ enabled' = Append(enabled, [fam |-> fam, bind |-> bind])
    /\ recv_ret' = NoRecv
    /\ UNCHANGED <<wvars, dvars, cvars, bvars>>

\* enable_v4(inner, bind) with a socket just bound to bind
EnableV4 ==
    /\ Len(enabled) < MaxEnable
    /\ \E bind \in Binds("v4") :
        EnableCalled(enable_v4(remote_recv, Len(enabled) + 1, bind), "v4", bind)

\* enable_v6(inner, bind) with a socket just bound to bind
EnableV6 ==
    /\ Len(enabled) < MaxEnable
    /\ \E bind \in Binds("v6") :
        EnableCalled(enable_v6(remote_recv, Len(enabled) + 1, bind), "v6", bind)

\* One call of poll_recv_packet.
PollRecvPacket ==
    /\ \E o4 \in SockResults : \E o6 \in SockResults :
        recv_ret' = poll_recv_packet(remote_recv, o4, o6)
    /\ UNCHANGED <<remote_recv, enabled>>
    /\ UNCHANGED <<wvars, dvars, cvars, bvars>>

\* One call of poll_recv_packets.
PollRecvPackets ==
    /\ \E o4 \in SockResults : \E o6 \in SockResults :
        recv_ret' = poll_recv_packets(remote_recv, o4, o6)
    /\ UNCHANGED <<remote_recv, enabled>>
    /\ UNCHANGED <<wvars, dvars, cvars, bvars>>

NextUdp == EnableV4 \/ EnableV6 \/ PollRecvPacket \/ PollRecvPackets

InitUdpSpec == NoIcap /\ NoOthers

SpecUdp == InitUdpSpec /\ [][NextUdp]_vars

\* ------------------------------------------------- parsing a server config

\* The keys a YAML map may hold, normalized: the keys of both configs and
\* one that neither knows.
YamlKeys ==
    {CONFIG_KEY_SERVER_TYPE, "tcp_conn_speed_limit", "tcp_conn_limit", "conn_limit",
     "no_such_key"}
    \cup DOMAIN TcpTProxyKeys \cup DOMAIN OpensslProxyKeys

\* foreach_kv has handed one more key to set; it stops at the first error.
SetDone(k, v, c) ==
    /\ server' = c.config
    /\ set_ret' = [key |-> k, value |-> v, res |-> c.res, warned |-> c.warned]
    /\ set_calls' = set_calls + 1
    /\ UNCHANGED server_type
    /\ UNCHANGED <<wvars, dvars, uvars, bvars>>

CanSet(type) ==
    /\ server_type = type
    /\ set_calls < MaxSet
    /\ set_ret.res \in {"None", "Ok"}

\* TcpTProxyServerConfig::parse: one key of the map
SetTcpTProxy ==
    /\ CanSet("TcpTProxy")
    /\ \E k \in YamlKeys : \E v \in YamlValues :
        SetDone(k, v, TcpTProxy_set(SetCall(server), k, v))

\* OpensslProxyServerConfig::parse: one key of the map, in a build without
\* the feature openssl-async-job
SetOpensslProxy ==
    /\ CanSet("OpensslProxy")
    /\ \E k \in YamlKeys : \E v \in YamlValues :
        SetDone(k, v, OpensslProxy_set(SetCall(server), k, v, FALSE))

\* The same in a build with the feature.
SetOpensslProxyAsyncJob ==
    /\ CanSet("OpensslProxy+openssl-async-job")
    /\ \E k \in YamlKeys : \E v \in YamlValues :
        SetDone(k, v, OpensslProxy_set(SetCall(server), k, v, TRUE))

NextConfig == SetTcpTProxy \/ SetOpensslProxy \/ SetOpensslProxyAsyncJob

InitConfigSpec ==
    /\ NoIcap
    /\ InitUdp
    /\ InitBind
    /\ set_calls = 0
    /\ set_ret = NoSet
    /\ \/ server_type = "TcpTProxy" /\ server = NewTcpTProxy
       \/ server_type = "OpensslProxy" /\ server = NewOpensslProxy
       \/ server_type = "OpensslProxy+openssl-async-job" /\ server = NewOpensslProxy

SpecConfig == InitConfigSpec /\ [][NextConfig]_vars

\* ------------------------------------------- binding a port of a range

\* The calls: every range up to MaxRangeEnd with every set of free ports
\* around it, and a range of more than RandomTries ports with none, the
\* first, or the last of its ports free.
BindInputs ==
    { <<s, e, f>> : s \in 1..MaxRangeEnd, e \in 1..MaxRangeEnd,
                    f \in SUBSET (0..(MaxRangeEnd + 1)) }
    \cup { <<1, BigRangeEnd, f>> : f \in {{}, {1}, {BigRangeEnd}, {BigRangeEnd + 1}} }

BindStep(b) ==
    /\ bind_call' = b
    /\ UNCHANGED <<wvars, dvars, uvars, cvars>>

\* new_udp_socket(family, buf_conf)?
NewUdpSocket ==
    /\ bind_call.phase = "socket"
    /\ \E ok \in BOOLEAN :
        BindStep(IF ok THEN [bind_call EXCEPT !.phase = "random"]
                 ELSE [bind_call EXCEPT !.phase = "done", !.ret = "SocketFailed"])

BindTried(b, port) ==
    IF bind_is_ok(bind_call, port)
    THEN \E r \in {"Ok", "LocalAddrFailed", "SetOptsFailed"} :
            BindStep(BindReturn(bind_call, port, r))
    ELSE BindStep(b)

\* One pass of the loop over 0..tries.
RandomBind ==
    /\ bind_call.phase = "random"
    /\ \E port \in RandomPorts(bind_call.port_start, bind_call.port_end) :
        BindTried(RandomFailed(bind_call), port)

\* One pass of the loop over port_start..=port_end.
ScanBind ==
    /\ bind_call.phase = "scan"
    /\ BindTried(ScanFailed(bind_call), bind_call.port)

NextBind == NewUdpSocket \/ RandomBind \/ ScanBind

InitBindSpec ==
    /\ NoIcap
    /\ InitUdp
    /\ InitConfig
    /\ \E in \in BindInputs :
        /\ in[1] < in[2]
        /\ bind_call = BindEntered(in[1], in[2], in[3])

SpecBind == InitBindSpec /\ [][NextBind]_vars

\* The call is straight-line code: it takes its next step.
SpecBindFair == SpecBind /\ WF_vars(NextBind)

\* ------------------------------------------- a reference chunked decoder
\* HTTP/1 chunked transfer coding read off a complete byte sequence, as a
\* receiver of the sink's bytes reads it: hex size line, CRLF, payload, CRLF,
\* ..., zero chunk, trailer fields, empty line.

HexChars == <<48, 49, 50, 51, 52, 53, 54, 55, 56, 57, 97, 98, 99, 100, 101, 102>>

LowerHex(n) ==
    IF n < 16 THEN <<HexChars[n + 1]>>
    ELSE <<HexChars[(n \div 16) + 1], HexChars[(n % 16) + 1]>>

FirstAt(s, i, c) ==
    IF \E j \in i..Len(s) : s[j] = c
    THEN CHOOSE j \in i..Len(s) : s[j] = c /\ \A k \in i..(j - 1) : s[k] # c
    ELSE 0

AllHex(s, i, j) == \A k \in i..j : \E d \in 1..16 : HexChars[d] = s[k]

RECURSIVE FromHex(_, _, _)
FromHex(s, i, j) ==
    IF i > j THEN 0
    ELSE FromHex(s, i, j - 1) * 16 + ((CHOOSE d \in 1..16 : HexChars[d] = s[j]) - 1)

RECURSIVE TrailerEnd(_, _)
TrailerEnd(s, k) ==
    IF k + 1 > Len(s) THEN 0
    ELSE IF s[k] = 13 /\ s[k + 1] = 10 THEN k + 1
    ELSE IF FirstAt(s, k, 10) = 0 THEN 0
    ELSE TrailerEnd(s, FirstAt(s, k, 10) + 1)

NotChunked == [ok |-> FALSE, payload |-> <<>>, end |-> 0]

RECURSIVE DechunkFrom(_, _, _)
DechunkSized(s, j, n, acc) ==
    IF n = 0
    THEN IF TrailerEnd(s, j + 2) = 0 THEN NotChunked
         ELSE [ok |-> TRUE, payload |-> acc, end |-> TrailerEnd(s, j + 2)]
    ELSE IF j + n + 3 > Len(s) THEN NotChunked
    ELSE IF s[j + n + 2] # 13 \/ s[j + n + 3] # 10 THEN NotChunked
    ELSE DechunkFrom(s, j + n + 4, acc \o SubSeq(s, j + 2, j + n + 1))

DechunkLine(s, i, j, acc) ==
    IF j = 0 \/ j = i \/ j + 1 > Len(s) THEN NotChunked
    ELSE IF s[j + 1] # 10 \/ ~AllHex(s, i, j - 1) THEN NotChunked
    ELSE DechunkSized(s, j, FromHex(s, i, j - 1), acc)

DechunkFrom(s, i, acc) == DechunkLine(s, i, FirstAt(s, i, 13), acc)

\* ok: s starts with a complete chunked body; payload: its de-framed bytes;
\* end: the index of the body's last byte.
Dechunk(s) == DechunkFrom(s, 1, <<>>)

ZeroChunkEnd == <<48, 13, 10, 13, 10>>

IsSuffix(t, s) == Len(t) <= Len(s) /\ SubSeq(s, Len(s) - Len(t) + 1, Len(s)) = t

IsPrefix(t, s) == Len(t) <= Len(s) /\ SubSeq(s, 1, Len(t)) = t

\* ------------------------------------------------------------- the claims

\* The payload the transfer is to carry: the first len bytes of the source
\* for ContentLength(len), every byte up to the end of file for
\* ReadUntilEnd, the de-framed chunk payload for Chunked (for a body resumed
\* after a preview: of the rest of the cut chunk and of the chunks behind it).
BodyPayload ==
    CASE transfer.body_type = "ContentLength" -> SubSeq(reader.data, 1, transfer.len)
      [] transfer.body_type = "ReadUntilEnd" -> reader.data
      [] OTHER -> Dechunk(transfer.head \o reader.data).payload

\* C1: for every body type and every split of the source into reads, when
\* the transfer has resolved Ok the sink holds one complete chunked body,
\* nothing after it, and de-framing it gives exactly the body payload.
C1_RoundTrip ==
    ret = "Ok" =>
        /\ Dechunk(writer.out).ok
        /\ Dechunk(writer.out).end = Len(writer.out)
        /\ Dechunk(writer.out).payload = BodyPayload

\* A read-until-end body of two bytes that arrived in two reads and went
\* out as two chunks.
C1_Witness ==
    /\ ret = "Ok"
    /\ transfer.body_type = "ReadUntilEnd"
    /\ Len(reader.data) = 2
    /\ Len(writer.out) = 17

\* C2: ContentLength(n), n > 0, source of at least n bytes: on Ok the sink
\* is exactly hex(n) CRLF, the first n source bytes, CRLF 0 CRLF CRLF (one
\* chunk), and the source is consumed by exactly n bytes.
C2_FixedLengthOutput ==
    (/\ ret = "Ok"
     /\ transfer.body_type = "ContentLength"
     /\ transfer.len > 0
     /\ Len(reader.data) >= transfer.len) =>
        /\ writer.out = LowerHex(transfer.len) \o <<13, 10>>
                        \o SubSeq(reader.data, 1, transfer.len)
                        \o <<13, 10, 48, 13, 10, 13, 10>>
        /\ reader.pos = transfer.len

\* A two-hex-digit length with more source bytes than the body has.
C2_Witness ==
    /\ ret = "Ok"
    /\ transfer.body_type = "ContentLength"
    /\ transfer.len = BigLen
    /\ Len(reader.data) > transfer.len

\* C3: ContentLength(n) over a source that ends before n bytes: the
\* transfer never resolves Ok, finished() stays false, no terminator byte
\* reaches the sink (the sink holds a prefix of the head and the source
\* bytes), and once the end of file was met the result is ReadFailed.
C3_ShortSource ==
    (transfer.body_type = "ContentLength" /\ Len(reader.data) < transfer.len) =>
        /\ ret # "Ok"
        /\ ~finished(transfer)
        /\ IsPrefix(writer.out, transfer.head \o reader.data)
        /\ (reader.eof => ret = "ReadFailed")

\* The source gave some bytes, then the end of file, and the poll failed.
C3_Witness ==
    /\ transfer.body_type = "ContentLength"
    /\ Len(reader.data) < transfer.len
    /\ Len(reader.data) > 0
    /\ reader.eof
    /\ ret = "ReadFailed"
    /\ reader.pos = Len(reader.data)

\* C4: chunked pass-through of a well-formed input: the sink always holds a
\* prefix of the input, the source is never consumed past the end of the
\* body, and on Ok the sink is the input up to and including the end of the
\* body (trailer fields included) with every later byte left unread.
C4_ChunkedPassThrough ==
    (transfer.body_type = "Chunked" /\ Dechunk(reader.data).ok) =>
        /\ IsPrefix(writer.out, reader.data)
        /\ reader.pos <= Dechunk(reader.data).end
        /\ (ret = "Ok" =>
                /\ writer.out = SubSeq(reader.data, 1, Dechunk(reader.data).end)
                /\ reader.pos = Dechunk(reader.data).end)

\* Two chunks, a trailer field and bytes of the next message behind the
\* body.
C4_Witness ==
    /\ ret = "Ok"
    /\ transfer.body_type = "Chunked"
    /\ Dechunk(reader.data).ok
    /\ Len(Dechunk(reader.data).payload) = 2
    /\ Dechunk(reader.data).end = 22
    /\ Len(reader.data) = 25

\* C5: for the re-encoded bodies, whenever finished() holds the sink ends
\* with 0 CRLF CRLF, and no step taken from a finished transfer changes the
\* sink.
C5_TerminatorLast ==
    /\ []((transfer.body_type \in {"ContentLength", "ReadUntilEnd"} /\ finished(transfer))
            => IsSuffix(ZeroChunkEnd, writer.out))
    /\ [][(transfer.body_type \in {"ContentLength", "ReadUntilEnd"} /\ finished(transfer))
            => writer'.out = writer.out]_vars

\* A finished fixed-length transfer that was polled again and flushed.
C5_Witness ==
    /\ transfer.body_type = "ContentLength"
    /\ transfer.len > 0
    /\ finished(transfer)
    /\ writer.flushed = Len(writer.out)

\* C6: ContentLength(0) starts in the terminator state and never is in
\* SendHead, Copy or Encode; the source is never polled; the sink holds a
\* prefix of 0 CRLF CRLF, and exactly these five bytes on Ok.
C6_EmptyBody ==
    (transfer.body_type = "ContentLength" /\ transfer.len = 0) =>
        /\ transfer.state \in {"SendNoTrailerEnd", "FlushEnd", "End"}
        /\ ~reader.polled
        /\ reader.pos = 0
        /\ reader.filled = 0
        /\ IsPrefix(writer.out, ZeroChunkEnd)
        /\ (ret = "Ok" => writer.out = ZeroChunkEnd)

C6_Witness ==
    /\ transfer.body_type = "ContentLength"
    /\ transfer.len = 0
    /\ ret = "Ok"
    /\ Len(reader.data) > 0

\* C7: whenever the last poll resolved Ok finished() holds, and finished()
\* never turns false again.
C7_FinishedAfterOk ==
    /\ [](ret = "Ok" => finished(transfer))
    /\ [][finished(transfer) => finished(transfer')]_vars

\* A finished transfer whose later poll failed in the flush.
C7_Witness ==
    /\ finished(transfer)
    /\ ret = "WriteFailed"
    /\ transfer.body_type = "ContentLength"

\* Cached, unsent bytes at the upstream-to-ICAP leg: a chunk head or the
\* terminator still being written, or bytes in the buffer of the copy or
\* of the encoder.
UpsCached ==
    \/ transfer.state \in {"SendHead", "SendNoTrailerEnd"}
    \/ transfer.state = "Copy" /\ copy.buf # <<>>
    \/ transfer.state = "Encode" /\ encode.buf # <<>>

IdleVerdicts ==
    {"HttpUpstreamReadIdle", "IcapServerWriteIdle", "IcapServerReadIdle",
     "HttpClientWriteIdle"}

C8_ClientBlameNeverReturned ==
    /\ end_state \notin {"IcapServerReadIdle", "HttpClientWriteIdle"}
    /\ last_tick.ret \notin {"IcapServerReadIdle", "HttpClientWriteIdle"}

\* C9: in transfer_and_recv, a tick that meets the upstream leg idle with
\* the quit threshold reached returns IcapServerWriteIdle when the leg holds
\* cached unsent bytes (a head or terminator in flight included) and
\* HttpUpstreamReadIdle when it holds none; an idle verdict is returned
\* by such a tick only, and never one of the client leg.
C9_TransferAndRecvIdle ==
    /\ (/\ last_tick.phase = "transfer_and_recv"
        /\ last_tick.ups_idle
        /\ check_quit(last_tick.count + last_tick.n)) =>
            /\ pc = "done"
            /\ tr_ret = IF UpsCached THEN "IcapServerWriteIdle" ELSE "HttpUpstreamReadIdle"
    /\ tr_ret \in IdleVerdicts =>
            /\ tr_ret \in {"IcapServerWriteIdle", "HttpUpstreamReadIdle"}
            /\ last_tick.phase = "transfer_and_recv"
            /\ last_tick.ups_idle
            /\ check_quit(last_tick.count + last_tick.n)

\* The quit came with the terminator of a fixed-length body partly written.
C9_Witness ==
    /\ tr_ret = "IcapServerWriteIdle"
    /\ transfer.state = "SendNoTrailerEnd"
    /\ transfer.len > 0
    /\ transfer.offset > 0

\* C10, as stated: every tick at which the force-quit reason is set ends
\* with IdleForceQuit.
C10_ForceQuitAlways ==
    (last_tick.phase # "none" /\ last_tick.force) => last_tick.ret = "IdleForceQuit"

AllWatchedIdle(t) ==
    IF t.phase = "transfer_and_recv" THEN t.ups_idle ELSE t.ups_idle /\ t.clt_idle

\* C10, amended: a tick at which the force-quit reason is set ends with
\* IdleForceQuit unless at this tick every watched leg is idle and the idle
\* count reaches the quit threshold; then the idle verdict is returned and
\* the reason is not looked at.
C10_ForceQuitUnlessIdleQuit ==
    (last_tick.phase # "none" /\ last_tick.force) =>
        /\ pc = "done"
        /\ last_tick.ret = IF last_tick.phase = "transfer_and_recv" THEN tr_ret ELSE end_state
        /\ IF AllWatchedIdle(last_tick) /\ check_quit(last_tick.count + last_tick.n)
           THEN last_tick.ret = IF last_tick.ups_no_cache
                                THEN "HttpUpstreamReadIdle" ELSE "IcapServerWriteIdle"
           ELSE last_tick.ret = "IdleForceQuit"

\* A forced quit at a tick of transfer_and_recv that saw progress.
C10_Witness ==
    /\ last_tick.phase = "transfer_and_recv"
    /\ last_tick.force
    /\ ~last_tick.ups_idle
    /\ tr_ret = "IdleForceQuit"

\* C11: with a declared Content-Length > 0, transfer ends with
\* AdaptedTransferred only when the client-leg copy finished and copied
\* equals the declared length, with InvalidHttpBodyFromIcapServer only when
\* it finished with another count, and once the copy has finished and
\* transfer has returned the result is one of these two by that comparison.
C11_DeclaredLength ==
    (body_content_length.some /\ body_content_length.len > 0) =>
        /\ end_state = "AdaptedTransferred" =>
                clt.finished /\ clt.copied = body_content_length.len
        /\ end_state = "InvalidHttpBodyFromIcapServer" =>
                clt.finished /\ clt.copied # body_content_length.len
        /\ (pc = "done" /\ clt.finished) =>
                end_state = IF clt.copied = body_content_length.len
                            THEN "AdaptedTransferred"
                            ELSE "InvalidHttpBodyFromIcapServer"

\* The ICAP body decoded to more bytes than the adapted header declared.
C11_Witness ==
    /\ body_content_length = Some(1)
    /\ clt.finished
    /\ clt.copied = 2
    /\ end_state = "InvalidHttpBodyFromIcapServer"

\* C12, as stated: with a declared Content-Length of 0 transfer returns
\* InvalidHttpBodyFromIcapServer.
C12_ZeroLengthAlwaysInvalid ==
    (body_content_length = Some(0) /\ pc = "done") =>
        end_state = "InvalidHttpBodyFromIcapServer"

\* C12, amended: with a declared Content-Length of 0 the body leg is never
\* started (no byte is read from the ICAP body or written to the client,
\* clt_send_all stays unmarked), and transfer returns
\* InvalidHttpBodyFromIcapServer once the client header was written, or
\* HttpClientWriteFailed when that write failed.
C12_ZeroLength ==
    body_content_length = Some(0) =>
        /\ pc \in {"send_response_header", "done"}
        /\ clt = NewClientCopy(0)
        /\ run_state.clt_send_all = 0
        /\ pc = "done" =>
              IF run_state.clt_send_header = 1
              THEN end_state = "InvalidHttpBodyFromIcapServer"
              ELSE end_state = "HttpClientWriteFailed"

C12_Witness ==
    /\ body_content_length = Some(0)
    /\ pc = "done"
    /\ end_state = "InvalidHttpBodyFromIcapServer"
    /\ run_state.clt_send_header = 1

\* C13: a ReadFailed of the upstream-to-ICAP leg ends its phase with
\* HttpUpstreamReadFailed and a WriteFailed with IcapServerWriteFailed, and
\* these two results come from nothing else; a ReadFailed of the
\* ICAP-to-client leg ends transfer with IcapServerReadFailed and a
\* WriteFailed with HttpClientWriteFailed; the driver takes no step after
\* it has returned, so no leg is polled again after its error.
C13_DirectionalErrors ==
    /\ [](ret = "ReadFailed" =>
            /\ pc = "done"
            /\ \/ tr_ret = "HttpUpstreamReadFailed" /\ end_state = "None"
               \/ tr_ret = "Ok" /\ end_state = "HttpUpstreamReadFailed")
    /\ [](ret = "WriteFailed" =>
            /\ pc = "done"
            /\ \/ tr_ret = "IcapServerWriteFailed" /\ end_state = "None"
               \/ tr_ret = "Ok" /\ end_state = "IcapServerWriteFailed")
    /\ []("HttpUpstreamReadFailed" \in {tr_ret, end_state} => ret = "ReadFailed")
    /\ []("IcapServerWriteFailed" \in {tr_ret, end_state} => ret = "WriteFailed")
    /\ [](clt.failed = "ReadFailed" => pc = "done" /\ end_state = "IcapServerReadFailed")
    /\ [](clt.failed = "WriteFailed" => pc = "done" /\ end_state = "HttpClientWriteFailed")
    /\ [][pc # "done"]_vars

\* The upstream leg had completed and the awaited client leg failed to read.
C13_Witness ==
    /\ clt.failed = "ReadFailed"
    /\ end_state = "IcapServerReadFailed"
    /\ finished(transfer)
    /\ ret = "Ok"
    /\ clt.copied > 0

\* C14: each run-state mark is set at most once; a later mark is never set
\* while an earlier one is unset; clt_send_start is set when the client
\* header write begins and clt_send_header is not; clt_send_header is set
\* only when that write succeeded; clt_send_all is set only when the body
\* copy finished.
C14_MarksInOrder ==
    /\ \A f \in {"clt_send_start", "clt_send_header", "clt_send_all"} : run_state[f] <= 1
    /\ run_state.clt_send_all <= run_state.clt_send_header
    /\ run_state.clt_send_header <= run_state.clt_send_start
    /\ pc \in {"transfer_and_recv", "recv_icap_response", "transfer"} =>
            run_state.clt_send_start = 0
    /\ pc = "send_response_header" =>
            run_state.clt_send_start = 1 /\ run_state.clt_send_header = 0
    /\ pc \in {"do_transfer", "await_clt", "trailer"} => run_state.clt_send_header = 1
    /\ (end_state = "HttpClientWriteFailed" /\ clt.failed = "None") =>
            run_state.clt_send_header = 0
    /\ run_state.clt_send_all = 1 => clt.finished

\* A transfer that set all three marks and returned.
C14_Witness ==
    /\ run_state = [clt_send_start |-> 1, clt_send_header |-> 1, clt_send_all |-> 1]
    /\ end_state = "AdaptedTransferred"

\* Number of payload bytes that reached the sink: the sink's bytes without
\* the chunk head and the terminator the writer produced itself.  A chunked
\* source is copied verbatim, so all of its bytes count.
C15_PayloadWritten ==
    CASE transfer.body_type = "ContentLength" -> transfer.len
      [] transfer.body_type = "ReadUntilEnd" -> Len(reader.data)
      [] OTHER -> Len(writer.out)

C15_TotalWriteCountsHead ==
    (ret = "Ok" /\ transfer.body_type = "ContentLength" /\ transfer.len > 0) =>
        transfer.total_write = transfer.len + Len(LowerHex(transfer.len)) + 2

C16_TrailerRead ==
    /\ [](pc = "trailer" =>
            /\ body_content_length.some /\ body_content_length.len > 0
            /\ clt.finished /\ clt.trailer = "None"
            /\ run_state.clt_send_all = 1)
    /\ [][pc = "trailer" =>
            /\ clt'.trailer \in {"Ok", "Err"}
            /\ clt'.trailer = "Ok" => icap_read_finished' = "true"
            /\ clt'.trailer = "Err" => icap_read_finished' = icap_read_finished
            /\ end_state' = (IF clt.copied = body_content_length.len
                             THEN "AdaptedTransferred"
                             ELSE "InvalidHttpBodyFromIcapServer")]_vars
    /\ [][(body_content_length.some /\ icap_read_finished' # icap_read_finished) =>
            pc = "trailer"]_vars
    /\ []((clt.trailer = "None" /\ body_content_length.some /\ pc = "done") =>
            end_state # "AdaptedTransferred")

\* A failed trailer read after a body of the declared length: the transfer
\* still returns AdaptedTransferred and the flag is as the caller built it.
C16_Witness ==
    /\ pc = "done"
    /\ clt.trailer = "Err"
    /\ end_state = "AdaptedTransferred"
    /\ icap_read_finished = AsBuilt

\* C17: with no Content-Length in the adapted response, once transfer has
\* returned, icap_read_finished is true exactly when the result is
\* AdaptedTransferred, and then the client-leg copy is finished: the ICAP
\* body was read to its end and every byte of it written; on every other
\* result of this path the field is as the caller built it.
C17_NoLengthReadFinished ==
    (pc = "done" /\ run_state.clt_send_header = 1 /\ body_content_length = None) =>
        /\ (icap_read_finished = "true") <=> (end_state = "AdaptedTransferred")
        /\ icap_read_finished \in {"true", AsBuilt}
        /\ end_state = "AdaptedTransferred" =>
                /\ clt.finished /\ clt.read_done
                /\ clt.left = 0 /\ clt.buf = 0
                /\ run_state.clt_send_all = 1

\* A body of two bytes without a declared length copied to its end.
C17_Witness ==
    /\ pc = "done"
    /\ body_content_length = None
    /\ end_state = "AdaptedTransferred"
    /\ icap_read_finished = "true"
    /\ clt.copied = MaxIcapBody

\* C18: in transfer_and_recv, when fill_wait_data reports data the body
\* leg was polled first at that wake-up and is pending, and the driver is
\* in recv_icap_response with no result yet; when it reports a closed
\* connection the result is IcapServerConnectionClosed, when it fails
\* IcapServerReadFailed; and no step of recv_icap_response polls the body
\* leg or touches its reader or writer.
C18_EarlyIcapResponse ==
    /\ [](last_tick.icap = "data" =>
            /\ pc = "recv_icap_response"
            /\ ret = "Pending" /\ ~finished(transfer)
            /\ tr_ret = "None")
    /\ [](last_tick.icap = "closed" =>
            pc = "done" /\ tr_ret = "IcapServerConnectionClosed" /\ ret = "Pending")
    /\ [](last_tick.icap = "err" =>
            pc = "done" /\ tr_ret = "IcapServerReadFailed" /\ ret = "Pending")
    /\ [][pc = "recv_icap_response" =>
            /\ UNCHANGED wvars
            /\ tr_ret' \in {"Ok", "IcapResponseParseFailed"}]_vars

\* The ICAP response was parsed while the body leg, with bytes written to
\* the ICAP server, was still pending.
C18_Witness ==
    /\ pc = "transfer"
    /\ tr_ret = "Ok"
    /\ ret = "Pending"
    /\ transfer.state = "Copy"
    /\ writer.out # <<>>

\* The enable call that handed over socket number k.
EnableCallOf(k) == enabled[k]

\* The last enable call of a family, 0 when there was none.
LastEnable(fam) ==
    IF \E k \in 1..Len(enabled) : enabled[k].fam = fam
    THEN CHOOSE k \in 1..Len(enabled) :
            /\ enabled[k].fam = fam
            /\ \A j \in (k + 1)..Len(enabled) : enabled[j].fam # fam
    ELSE 0

\* C19: after a receive call, single-packet or batched, the result is
\* NoListenSocket exactly when no enable call was made before it, and then
\* the call polled no socket; with an enable call made the result is one of
\* Pending, Ok and RecvFailed.
C19_NoListenSocket ==
    recv_ret.kind # "None" =>
        /\ (recv_ret.kind = "NoListenSocket") <=> (enabled = <<>>)
        /\ recv_ret.kind = "NoListenSocket" => recv_ret.polled = <<>>
        /\ enabled # <<>> => recv_ret.kind \in {"Pending", "Ok", "RecvFailed"}

\* A batched receive call answered by a socket enabled before it.
C19_Witness ==
    /\ recv_ret.path = "packets"
    /\ recv_ret.kind = "Ok"
    /\ Len(enabled) = 1
    /\ enabled[1].fam = "v6"

\* C20: a RecvFailed result names the socket whose poll failed; that socket
\* is the one of the last enable call of its family, the address in the
\* error is the bind address of that very call, and it is the bind_v4 field
\* for a v4 socket and the bind_v6 field for a v6 socket.
C20_RecvFailedBind ==
    recv_ret.kind = "RecvFailed" =>
        /\ recv_ret.sock \in 1..Len(enabled)
        /\ recv_ret.polled # <<>>
        /\ EnableCallOf(recv_ret.sock).fam = recv_ret.polled[Len(recv_ret.polled)]
        /\ recv_ret.sock = LastEnable(EnableCallOf(recv_ret.sock).fam)
        /\ recv_ret.addr = EnableCallOf(recv_ret.sock).bind
        /\ recv_ret.addr = (IF EnableCallOf(recv_ret.sock).fam = "v4"
                            THEN remote_recv.bind_v4 ELSE remote_recv.bind_v6)
        /\ recv_ret.addr.fam = EnableCallOf(recv_ret.sock).fam

\* Both families enabled, v4 twice with different addresses; the v4 socket
\* is pending and the v6 socket fails on the batched path.
C20_Witness ==
    /\ recv_ret.kind = "RecvFailed"
    /\ recv_ret.path = "packets"
    /\ recv_ret.polled = <<"v4", "v6">>
    /\ Len(enabled) = 3
    /\ enabled[1].fam = "v4" /\ enabled[3].fam = "v4"
    /\ enabled[1].bind # enabled[3].bind
    /\ recv_ret.addr = enabled[2].bind

\* C21: in both server configs a call of set with the key
\* tcp_conn_speed_limit or conn_limit logs a deprecation warning for that
\* key and does what the key tcp_sock_speed_limit does with the same value:
\* a well-formed value is stored in tcp_sock_speed_limit and the call is
\* Ok, a malformed one is refused as a value.
C21_DeprecatedKeys ==
    set_ret.key \in {"tcp_conn_speed_limit", "conn_limit"} =>
        /\ set_ret.warned = <<set_ret.key>>
        /\ IF ValueOk(set_ret.value)
           THEN set_ret.res = "Ok" /\ server["tcp_sock_speed_limit"] = set_ret.value
           ELSE set_ret.res = "InvalidValue"

\* What the code does: TcpTProxy does as claimed; OpensslProxy takes
\* tcp_conn_speed_limit as the canonical key without a warning and refuses
\* conn_limit as an invalid key.
C21_DeprecatedKeysAsCoded ==
    /\ (server_type = "TcpTProxy" /\ set_ret.key \in {"tcp_conn_speed_limit", "conn_limit"}) =>
            /\ set_ret.warned = <<set_ret.key>>
            /\ IF ValueOk(set_ret.value)
               THEN set_ret.res = "Ok" /\ server["tcp_sock_speed_limit"] = set_ret.value
               ELSE set_ret.res = "InvalidValue"
    /\ (server_type # "TcpTProxy" /\ set_ret.key = "tcp_conn_speed_limit") =>
            /\ set_ret.warned = <<>>
            /\ IF ValueOk(set_ret.value)
               THEN set_ret.res = "Ok" /\ server["tcp_sock_speed_limit"] = set_ret.value
               ELSE set_ret.res = "InvalidValue"
    /\ (server_type # "TcpTProxy" /\ set_ret.key = "conn_limit") =>
            set_ret.res = "InvalidKey" /\ set_ret.warned = <<>>

\* OpensslProxy handed conn_limit with a well-formed value, after the
\* canonical key was set.
C21_Witness ==
    /\ server_type = "OpensslProxy"
    /\ set_calls = 2
    /\ set_ret.key = "conn_limit"
    /\ set_ret.value = "v2"
    /\ set_ret.res = "InvalidKey"
    /\ server["tcp_sock_speed_limit"] = "v1"

\* The ports of the range that a bind succeeds on.
FreeInRange ==
    bind_call.free \cap (bind_call.port_start..bind_call.port_end)

\* C22, as stated: the call returns Ok whenever a port of the range can be
\* bound.
C22_OkWheneverBindable ==
    (bind_call.phase = "done" /\ FreeInRange # {}) => bind_call.ret = "Ok"

\* C22: an Ok result carries a port of the range, the one that was bound;
\* AddrNotAvailable is returned only with no port of the range bindable,
\* after all random attempts and a bind on every port of the range; with a
\* bindable port the call returns Ok or the error of new_udp_socket,
\* local_addr or set_udp_misc_opts; the call makes at most
\* min(count, 10) + count binds and it returns.
C22_InRangeBind ==
    /\ [](bind_call.ret = "Ok" =>
            /\ bind_call.listen_port \in bind_call.port_start..bind_call.port_end
            /\ bind_call.listen_port = bind_call.bound
            /\ bind_call.bound \in bind_call.free)
    /\ [](bind_call.ret = "AddrNotAvailable" =>
            /\ FreeInRange = {}
            /\ bind_call.i = Min(bind_call.port_end - bind_call.port_start + 1, 10)
            /\ bind_call.attempts
                 = bind_call.i + (bind_call.port_end - bind_call.port_start + 1))
    /\ []((bind_call.phase = "done" /\ FreeInRange # {}) =>
            bind_call.ret \in {"Ok", "SocketFailed", "LocalAddrFailed", "SetOptsFailed"})
    /\ []((bind_call.phase = "done" /\ FreeInRange = {}) =>
            bind_call.ret \in {"AddrNotAvailable", "SocketFailed"})
    /\ [](bind_call.attempts <=
            Min(bind_call.port_end - bind_call.port_start + 1, 10)
            + (bind_call.port_end - bind_call.port_start + 1))
    /\ <>(bind_call.phase = "done")

\* Twelve ports of which only the last is free: ten random attempts miss
\* it and the scan binds it as its twelfth port.
C22_Witness ==
    /\ bind_call.ret = "Ok"
    /\ bind_call.port_end = BigRangeEnd
    /\ bind_call.listen_port = BigRangeEnd
    /\ bind_call.i = RandomTries
    /\ bind_call.attempts = RandomTries + BigRangeEnd

\* C23: at every idle tick of either phase, check_quit is consulted exactly
\* when every watched leg is idle, and then with the idle count of before
\* plus the tick count of this tick; a tick that finds a watched leg active
\* sets idle_count to 0 and leaves the active flag of every watched leg
\* cleared; no other wake-up of the phase changes idle_count, and
\* do_transfer starts with idle_count 0.  So idle_count is the sum of the
\* tick counts of the all-idle ticks since the last tick that saw progress.
C23_IdleCount ==
    /\ [][last_tick'.phase # "none" =>
            /\ last_tick'.count = idle_count
            /\ last_tick'.consulted <=> AllWatchedIdle(last_tick')
            /\ IF AllWatchedIdle(last_tick')
               THEN /\ idle_count' = idle_count + last_tick'.n
                    /\ last_tick'.quit <=> check_quit(idle_count')
               ELSE /\ idle_count' = 0
                    /\ ~transfer'.active
                    /\ last_tick'.phase = "do_transfer" => ~clt'.active]_vars
    /\ [][(last_tick'.phase = "none" /\ pc' = pc) => idle_count' = idle_count]_vars
    /\ [][(pc # pc' /\ pc' \in {"do_transfer", "transfer_and_recv"}) =>
            idle_count' = 0]_vars
    /\ [](last_tick.quit =>
            /\ pc = "done"
            /\ (IF last_tick.phase = "transfer_and_recv" THEN tr_ret ELSE end_state)
                 \in IdleVerdicts)

\* The second all-idle tick in a row of do_transfer: the count of the first
\* is kept and this tick's count added to it.
C23_Witness ==
    /\ last_tick.phase = "do_transfer"
    /\ last_tick.consulted
    /\ last_tick.count = 1
    /\ last_tick.n = 1
    /\ idle_count = 2

\* C24: an idle verdict is returned only at a wake-up at which every
\* watched leg was polled before the idle tick arm (and was Pending), and
\* never at a wake-up at which a watched leg was ready.
C24_LegsBeforeIdle ==
    last_tick.quit =>
        /\ last_tick.phase = "transfer_and_recv" => last_tick.polled[1]
        /\ last_tick.phase = "do_transfer" => last_tick.polled = <<TRUE, TRUE>>
        /\ ~last_tick.ready

\* C24, the part that holds: the select of transfer_and_recv is biased.
C24_BiasedSelect ==
    (last_tick.quit /\ last_tick.phase = "transfer_and_recv") => last_tick.polled[1]

\* do_transfer returns an idle verdict at a wake-up at which no leg was
\* polled and a leg was ready.
C24_Witness ==
    /\ last_tick.phase = "do_transfer"
    /\ last_tick.polled = <<FALSE, FALSE>>
    /\ last_tick.ready
    /\ last_tick.quit
    /\ end_state \in IdleVerdicts

\* C25: a do_transfer whose upstream leg has completed and whose client leg
\* has not is still under the idle supervisor: with the interval timer
\* firing, it eventually returns (with the client leg's result or with an
\* idle or force-quit error), however long the client leg stalls.
C25_ArmedAfterUpstream == [](pc = "await_clt" => <>(pc # "await_clt"))

\* C25, the part that holds: while both legs run the supervisor is armed and
\* do_transfer eventually leaves its select: it returns, it goes on to await
\* the client leg alone, or the upstream poll stays in a write loop.
C25_ArmedWhileBothRun == [](pc = "do_transfer" => <>(pc # "do_transfer"))

\* The upstream leg has completed and the client leg is awaited alone.
C25_Witness ==
    /\ pc = "await_clt"
    /\ finished(transfer)
    /\ ~clt.finished
    /\ end_state = "None"

\* C26: a poll in state FlushEnd whose flush succeeds leaves the transfer in
\* state End, so the flush is not repeated by later polls.
C26_FlushThenEnd ==
    [][(transfer.state = "FlushEnd" /\ PollTransfer /\ ret' = "Ok") =>
          transfer'.state = "End"]_vars

\* C26 as coded: state FlushEnd is never left; every poll in it flushes the
\* sink again, and gives Ok when the flush succeeds.
C26_FlushEndStays ==
    [][transfer.state = "FlushEnd" =>
          /\ transfer'.state = "FlushEnd"
          /\ (PollTransfer /\ ret' = "Ok") => writer'.flushed = Len(writer'.out)]_vars

\* The terminator is written and flushed, and the state is still FlushEnd.
C26_Witness ==
    /\ transfer.state = "FlushEnd"
    /\ ret = "Ok"
    /\ Len(writer.out) > 0
    /\ writer.flushed = Len(writer.out)

\* What the peer sent as one chunked body: the head of the chunk whose rest
\* is still to come, and the source.
Resumed == transfer.head \o reader.data

\* C30: new_chunked_after_preview with left_chunk_size > 0 over a source
\* that holds the rest of that chunk and a well-formed continuation: the
\* sink always holds a prefix of the synthesized head (hex of
\* left_chunk_size, CRLF) followed by the source; on Ok it is that head
\* followed by the source verbatim up to and including the end of the body,
\* nothing added, every later byte left unread; the states gone through are
\* SendHead, Copy and End.  With left_chunk_size = 0 the transfer built is
\* the one of new_chunked.
C30_AfterPreview ==
    /\ new_chunked_after_preview(0) = new_chunked
    /\ \A left \in 1..BigLen :
        /\ new_chunked_after_preview(left).x.state = "SendHead"
        /\ new_chunked_after_preview(left).x.head = ToHex(left) \o CRLF
    /\ (transfer.body_type = "Chunked" /\ transfer.head # <<>> /\ Dechunk(Resumed).ok) =>
        /\ IsPrefix(writer.out, Resumed)
        /\ transfer.state \in {"SendHead", "Copy", "End"}
        /\ transfer.state = "SendHead" =>
              writer.out = SubSeq(transfer.head, 1, transfer.offset)
        /\ Len(transfer.head) + reader.pos <= Dechunk(Resumed).end
        /\ (ret = "Ok" =>
                /\ transfer.state = "End"
                /\ writer.out = SubSeq(Resumed, 1, Dechunk(Resumed).end)
                /\ Len(transfer.head) + reader.pos = Dechunk(Resumed).end)

\* The rest of a chunk of two bytes, one more chunk, a trailer field and a
\* byte of the next message behind the body: the sink holds "2" CRLF and
\* the source up to the end of the body.
C30_Witness ==
    /\ ret = "Ok"
    /\ transfer.body_type = "Chunked"
    /\ transfer.head = <<50, 13, 10>>
    /\ Len(Dechunk(Resumed).payload) = 3
    /\ Len(reader.data) = Dechunk(Resumed).end - 3 + 1
    /\ writer.out = transfer.head \o SubSeq(reader.data, 1, Len(reader.data) - 1)

\* The place of a state in the order SendHead, Copy, SendNoTrailerEnd,
\* FlushEnd, End; Encode stands where Copy does.
Rank(state) ==
    CASE state = "SendHead" -> 0
      [] state \in {"Copy", "Encode"} -> 1
      [] state = "SendNoTrailerEnd" -> 2
      [] state = "FlushEnd" -> 3
      [] OTHER -> 4

\* The states a transfer of a body type goes through.
StatesOf(body_type) ==
    CASE body_type = "ContentLength" -> {"SendHead", "Copy", "SendNoTrailerEnd", "FlushEnd"}
      [] body_type = "ReadUntilEnd" -> {"Encode", "End"}
      [] OTHER -> {"SendHead", "Copy", "End"}

\* The arm of state Copy or Encode, given a failure by its sub-future,
\* returns the failure and leaves the state.
ErrorKeepsState(state, sub, arm) ==
    sub.res \in {"ReadFailed", "WriteFailed"} => (arm.x.state = state /\ arm.res = sub.res)

ArmErrorKeepsState(m) ==
    CASE m.x.state = "Copy" -> ErrorKeepsState("Copy", StreamCopyPoll(m), PollCopy(m))
      [] m.x.state = "Encode" -> ErrorKeepsState("Encode", EncodePoll(m), PollEncode(m))
      [] OTHER -> TRUE

BeforeEnd ==
    IF transfer.len = 0 THEN <<>>
    ELSE transfer.head \o SubSeq(reader.data, 1, transfer.len)

\* The offset the terminator state starts at.
EndStart == IF transfer.len = 0 THEN 2 ELSE 0

\* C28: in SendHead and SendNoTrailerEnd the stored offset counts the bytes
\* of the buffer that are in the sink, each once and in order; a poll that
\* writes a part of the buffer (short write, Pending) changes the offset and
\* nothing else of the transfer and appends exactly the bytes between the
\* old and the new offset; the state changes only in a poll that appends all
\* the bytes from the offset to the end of the buffer.
C28_OffsetOnly ==
    /\ [](transfer.state = "SendHead" =>
            /\ transfer.offset < Len(transfer.head)
            /\ writer.out = SubSeq(transfer.head, 1, transfer.offset))
    /\ [](transfer.state = "SendNoTrailerEnd" =>
            /\ transfer.offset < Len(NO_TRAILER_END_BUFFER)
            /\ writer.out = BeforeEnd \o
                  SubSeq(NO_TRAILER_END_BUFFER, EndStart + 1, transfer.offset))
    /\ [][(transfer.state = "SendHead" /\ transfer'.state = "SendHead") =>
            /\ transfer'.offset >= transfer.offset
            /\ writer'.out = writer.out \o
                  SubSeq(transfer.head, transfer.offset + 1, transfer'.offset)
            /\ [transfer' EXCEPT !.offset = 0, !.active = FALSE]
                 = [transfer EXCEPT !.offset = 0, !.active = FALSE]]_vars
    /\ [][(transfer.state = "SendNoTrailerEnd" /\ transfer'.state = "SendNoTrailerEnd") =>
            /\ transfer'.offset >= transfer.offset
            /\ writer'.out = writer.out \o
                  SubSeq(NO_TRAILER_END_BUFFER, transfer.offset + 1, transfer'.offset)
            /\ [transfer' EXCEPT !.offset = 0, !.active = FALSE]
                 = [transfer EXCEPT !.offset = 0, !.active = FALSE]]_vars
    /\ [][(transfer.state = "SendHead" /\ transfer'.state # "SendHead") =>
            IsPrefix(writer.out \o SubSeq(transfer.head, transfer.offset + 1,
                                          Len(transfer.head)),
                     writer'.out)]_vars
    /\ [][(transfer.state = "SendNoTrailerEnd" /\ transfer'.state # "SendNoTrailerEnd") =>
            /\ transfer'.state = "FlushEnd"
            /\ writer'.out = writer.out \o
                  SubSeq(NO_TRAILER_END_BUFFER, transfer.offset + 1,
                         Len(NO_TRAILER_END_BUFFER))]_vars

\* A head of four bytes ("10" CRLF) of which a byte at a time went out in
\* three polls.
C28_Witness ==
    /\ transfer.state = "SendHead"
    /\ Len(transfer.head) = 4
    /\ transfer.offset = 3
    /\ ret = "Pending"
    /\ writer.out = <<49, 48, 13>>

\* A poll at which the sink's poll_write gives Ready(Ok(0)).
ZeroWritePoll ==
    \E io \in IOs : io.wend = "zero" /\ io.wb = 0 /\ Polled(Poll(Machine(io)))

\* C29: a poll in state SendHead or SendNoTrailerEnd at which the sink
\* accepts zero bytes returns a write failure.
C29_WriteZeroFails ==
    [][(transfer.state \in {"SendHead", "SendNoTrailerEnd"} /\ ZeroWritePoll) =>
          ret' = "WriteFailed"]_vars

\* C29 as coded: that poll adds 0 to the offset and calls poll_write again
\* with the same bytes, for as long as the sink answers Ok(0): it does not
\* return, and neither the transfer nor the sink changes.
C29_WriteZeroSpins ==
    [][(transfer.state \in {"SendHead", "SendNoTrailerEnd"} /\ ZeroWritePoll) =>
          /\ ret' = "Spin"
          /\ transfer' = transfer
          /\ writer' = writer]_vars

\* The head of a fixed-length body met a sink that accepts zero bytes.
C29_Witness ==
    /\ ret = "Spin"
    /\ transfer.state = "SendHead"
    /\ transfer.body_type = "ContentLength"
    /\ transfer.offset < Len(transfer.head)

\* The payloads of a list of chunks, one after the other.
RECURSIVE Flatten(_)
Flatten(ps) == IF ps = <<>> THEN <<>> ELSE Head(ps) \o Flatten(Tail(ps))

\* C31: the reader over the ICAP body follows the adapted header: the
\* decoding reader with a declared Content-Length, the framing-keeping
\* reader with none; when transfer gives AdaptedTransferred all that this
\* reader gave has gone to the client.  Where the reader is chosen, for
\* every chunked ICAP body (chunks, trailer fields, bytes behind the body)
\* that may lie before it, the decoding reader gives the
\* chunk payloads alone, and the framing-keeping reader the body as it is,
\* from the first chunk-size line to the empty line that ends it.
C31_BodyForm ==
    /\ clt.reader # "none" =>
          clt.reader = IF body_content_length.some THEN "HttpBodyDecodeReader"
                       ELSE "HttpBodyReader"
    /\ pc \in {"do_transfer", "await_clt", "trailer"} => clt.reader # "none"
    /\ end_state = "AdaptedTransferred" =>
          (clt.reader # "none" /\ clt.left = 0 /\ clt.buf = 0)
    /\ pc = "send_response_header" =>
        \A ps \in ChunkPayloads : \A t \in TrailerFields : \A nx \in NextBytes :
          /\ ClientReceives("HttpBodyDecodeReader",
                            Chunks(ps) \o <<48>> \o CRLF \o t \o CRLF \o nx) = Flatten(ps)
          /\ ClientReceives("HttpBodyReader",
                            Chunks(ps) \o <<48>> \o CRLF \o t \o CRLF \o nx)
                = Chunks(ps) \o <<48>> \o CRLF \o t \o CRLF

\* An adapted response with no Content-Length whose body of two bytes went
\* to the client through the framing-keeping reader.
C31_Witness ==
    /\ end_state = "AdaptedTransferred"
    /\ body_content_length = None
    /\ clt.reader = "HttpBodyReader"
    /\ clt.copied = 2

\* C32: no step lowers total_write: not a poll that gives Pending, not one
\* that gives an error, not one made after the transfer gave Ok, and not
\* reset_active.
C32_TotalWriteMonotonic ==
    [][transfer'.total_write >= transfer.total_write]_vars

\* The head was counted by an earlier poll, and a later poll failed.
C32_Witness ==
    /\ ret = "ReadFailed"
    /\ transfer.state = "Copy"
    /\ transfer.total_write = Len(transfer.head)
    /\ transfer.total_write > 0

\* The result r of a receive call with both sockets, given what the v4
\* socket (o4) and the v6 socket (o6) have to give: v4 is polled first, a
\* Ready v4 result is the result and v6 is not polled; with v4 Pending the
\* result is what v6 gives.
V4First(r, o4, o6) ==
    IF o4.res # "Pending"
    THEN /\ r.polled = <<"v4">>
         /\ r.kind = (IF o4.res = "Ok" THEN "Ok" ELSE "RecvFailed")
         /\ r.n = o4.n
         /\ r.kind = "RecvFailed" => r.addr = remote_recv.bind_v4
    ELSE /\ r.polled = <<"v4", "v6">>
         /\ r.kind = (CASE o6.res = "Pending" -> "Pending"
                        [] o6.res = "Ok" -> "Ok"
                        [] OTHER -> "RecvFailed")
         /\ r.n = o6.n
         /\ r.kind = "RecvFailed" => r.addr = remote_recv.bind_v6

BothEnabled == remote_recv.inner_v4 # NoSocket /\ remote_recv.inner_v6 # NoSocket

\* C33: with both families enabled, on the single-packet and on the batched
\* path, whatever the two sockets have to give: v4 is polled first, a Ready
\* v4 result (packets or an error) is returned without a poll of v6, v6 is
\* polled only when v4 was Pending, and the call is Pending only when both
\* were.
C33_V4First ==
    /\ BothEnabled =>
          \A o4 \in SockResults : \A o6 \in SockResults :
              /\ V4First(poll_recv_packet(remote_recv, o4, o6), o4, o6)
              /\ V4First(poll_recv_packets(remote_recv, o4, o6), o4, o6)
    /\ [][(remote_recv'.inner_v4 # NoSocket /\ remote_recv'.inner_v6 # NoSocket
           /\ recv_ret'.path # "none") =>
            /\ recv_ret'.polled \in {<<"v4">>, <<"v4", "v6">>}
            /\ recv_ret'.kind = "Pending" => recv_ret'.polled = <<"v4", "v6">>]_vars

\* The batched path with both sockets: v4 was Pending and the packet came
\* from v6.
C33_Witness ==
    /\ BothEnabled
    /\ recv_ret.path = "packets"
    /\ recv_ret.polled = <<"v4", "v6">>
    /\ recv_ret.kind = "Ok"
    /\ recv_ret.n = 1

\* C34: in transfer_and_recv the wait for the ICAP response that follows an
\* Ok of the body leg is still under the idle supervisor: with the interval
\* timer firing, the wait ends (the response is parsed, or an idle or
\* force-quit error is returned), however long the ICAP server is silent.
C34_RecvSupervised ==
    []((pc = "recv_icap_response" /\ finished(transfer)) => <>(pc # "recv_icap_response"))

\* C34, the part that holds: while the body leg is in the select the
\* supervisor is armed and the select is eventually left.
C34_SelectSupervised == [](pc = "transfer_and_recv" => <>(pc # "transfer_and_recv"))

\* The body leg has completed with Ok and the ICAP response is awaited
\* outside the select; no error has been returned.
C34_Witness ==
    /\ pc = "recv_icap_response"
    /\ finished(transfer)
    /\ ret = "Ok"
    /\ tr_ret = "None"

\* C35: whenever transfer has returned AdaptedTransferred, the
\* upstream-to-ICAP leg has completed: ups_body_transfer.finished() is true.
C35_UpstreamFinished == end_state = "AdaptedTransferred" => finished(transfer)

\* C35, the part that holds: AdaptedTransferred is returned only after the
\* ICAP-to-client leg has completed and mark_clt_send_all was called.
C35_ClientFinished ==
    end_state = "AdaptedTransferred" =>
        /\ clt.finished
        /\ clt.failed = "None"
        /\ run_state.clt_send_all = 1

\* transfer has returned AdaptedTransferred while the upstream leg is still
\* copying: part of the upstream body has not been read.
C35_Witness ==
    /\ end_state = "AdaptedTransferred"
    /\ pc = "done"
    /\ transfer.state = "Copy"
    /\ ~finished(transfer)
    /\ reader.pos < Len(reader.data)

\* C36: for a re-encoded ContentLength body the upstream-to-ICAP leg reports
\* Ok to the driver only after the sink has been flushed: in no state has the
\* leg given Ok while written bytes are not yet flushed.
C36_OkAfterFlush ==
    (transfer.body_type = "ContentLength" /\ ret = "Ok") =>
        writer.flushed = Len(writer.out)

\* The last chunk and the empty trailer, "0\r\n\r\n": the end of the
\* terminator, which an empty body starts at offset 2.
LastChunk == Drop(NO_TRAILER_END_BUFFER, 2)

\* C36, the part that holds: when the leg reports Ok the terminator is
\* wholly written to the sink, and the leg is finished.
C36_OkAfterTerminator ==
    (transfer.body_type = "ContentLength" /\ ret = "Ok") =>
        /\ finished(transfer)
        /\ Len(writer.out) >= Len(LastChunk)
        /\ SubSeq(writer.out, Len(writer.out) - Len(LastChunk) + 1,
                  Len(writer.out)) = LastChunk

\* The body leg of transfer_and_recv has reported Ok and the driver has gone
\* on to wait for the ICAP response; terminator bytes are in the sink
\* unflushed.
C36_Witness ==
    /\ pc = "recv_icap_response"
    /\ transfer.body_type = "ContentLength"
    /\ transfer.state = "FlushEnd"
    /\ ret = "Ok"
    /\ writer.flushed < Len(writer.out)

\* C37: the driver returns HttpUpstreamReadIdle only while the upstream body
\* is not yet fully read: never in a state where ups_body_transfer.finished()
\* is true.
C37_ReadIdleUnfinished ==
    (tr_ret = "HttpUpstreamReadIdle" \/ end_state = "HttpUpstreamReadIdle") =>
        ~finished(transfer)

\* C37, the part that holds: transfer_and_recv returns HttpUpstreamReadIdle
\* only with an unfinished body leg, and do_transfer returns it only from a
\* tick at which the upstream leg was idle with nothing cached.
C37_ReadIdleFromTick ==
    /\ tr_ret = "HttpUpstreamReadIdle" => ~finished(transfer)
    /\ end_state = "HttpUpstreamReadIdle" =>
          /\ last_tick.phase = "do_transfer"
          /\ last_tick.ups_idle
          /\ last_tick.ups_no_cache

\* do_transfer has returned HttpUpstreamReadIdle with the upstream leg in
\* state FlushEnd: the body was read to its end and the terminator written.
C37_Witness ==
    /\ end_state = "HttpUpstreamReadIdle"
    /\ pc = "done"
    /\ transfer.state = "FlushEnd"
    /\ finished(transfer)
    /\ reader.pos = Len(reader.data)

\* C38: a poll of a transfer that has resolved Ok (it is finished) returns
\* Ready with Ok, writes no byte to the sink, reads nothing from the source
\* and leaves total_write and finished() as they were.
C38_RepollReady ==
    [][(finished(transfer) /\ PollTransfer) =>
          /\ ret' = "Ok"
          /\ writer'.out = writer.out
          /\ reader' = reader
          /\ transfer'.total_write = transfer.total_write
          /\ finished(transfer')]_vars

\* C38, the part that holds: such a poll moves no byte and keeps total_write
\* and finished(); in state End it gives Ok, in state FlushEnd it gives what
\* the flush of the sink gives: Ok, Pending or a write failure.
C38_RepollKeeps ==
    [][(finished(transfer) /\ PollTransfer) =>
          /\ writer'.out = writer.out
          /\ reader' = reader
          /\ transfer'.total_write = transfer.total_write
          /\ transfer'.state = transfer.state
          /\ transfer.state = "End" => ret' = "Ok"
          /\ transfer.state = "FlushEnd" => ret' \in {"Ok", "Pending", "WriteFailed"}]_vars

\* A finished transfer was polled again and its flush was Pending.
C38_Witness ==
    /\ transfer.state = "FlushEnd"
    /\ ret = "Pending"
    /\ Len(writer.out) > 0
    /\ writer.flushed < Len(writer.out)

\* C39: when the parse of the adapted response header fails, transfer
\* returns the error and has done nothing else: no byte went to the client
\* (send_response_header was not reached and the client copy was not
\* started), none of clt_send_start, clt_send_header, clt_send_all is
\* marked, icap_read_finished has the value it had, and the upstream-to-ICAP
\* leg was not polled.
C39_ParseFailureFrame ==
    /\ [][(pc = "transfer" /\ end_state' = "HttpResponseParseFailed") =>
            /\ pc' = "done"
            /\ UNCHANGED wvars
            /\ UNCHANGED <<run_state, icap_read_finished, clt, body_content_length,
                           idle_count>>]_vars
    /\ [](end_state = "HttpResponseParseFailed" =>
            /\ run_state.clt_send_start = 0
            /\ run_state.clt_send_header = 0
            /\ run_state.clt_send_all = 0
            /\ clt.copied = 0
            /\ clt.reader = "none"
            /\ icap_read_finished = AsBuilt)

\* transfer has returned the parse failure, entered while the upstream leg
\* was still in its copy.
C39_Witness ==
    /\ end_state = "HttpResponseParseFailed"
    /\ pc = "done"
    /\ tr_ret = "Ok"
    /\ ~finished(transfer)
    /\ run_state.clt_send_start = 0

\* transfer has failed before do_transfer returned Ok: at the header parse,
\* at the header write, at a declared length of 0, with the error of a leg,
\* or with an idle or force-quit verdict.
FailedBeforeCopied ==
    \/ end_state \in {"HttpResponseParseFailed", "HttpUpstreamReadFailed",
                      "IcapServerWriteFailed", "IcapServerReadFailed",
                      "HttpUpstreamReadIdle", "IcapServerWriteIdle",
                      "IcapServerReadIdle", "HttpClientWriteIdle", "IdleForceQuit"}
    \/ /\ end_state \in {"HttpClientWriteFailed", "InvalidHttpBodyFromIcapServer"}
       /\ run_state.clt_send_all = 0

\* C40: icap_read_finished is written only after do_transfer has returned Ok
\* (the ICAP-to-client copy completed without error and clt_send_all is
\* marked), and it is true only then; on every path where transfer fails
\* before or during the body copy it has the value it was built with.
C40_FlagAfterCopy ==
    /\ [][icap_read_finished' # icap_read_finished =>
            /\ clt'.finished
            /\ clt'.failed = "None"
            /\ run_state'.clt_send_all = 1]_vars
    /\ [](icap_read_finished = "true" =>
            clt.finished /\ clt.failed = "None" /\ run_state.clt_send_all = 1)
    /\ [](FailedBeforeCopied => icap_read_finished = AsBuilt)

\* transfer with a declared length: the copy completed, the trailer was read
\* and the flag is true.
C40_Witness ==
    /\ pc = "done"
    /\ body_content_length # None
    /\ clt.finished
    /\ clt.trailer = "Ok"
    /\ icap_read_finished = "true"
    /\ end_state = "AdaptedTransferred"

====
